---------------------------- MODULE Spec2Model ----------------------------
(***************************************************************************)
(* A model of flask_extended_config: the Config object's merge / override  *)
(* / resolve pipeline (config.py), the database URL builder                *)
(* (sqlalchemy_url.py) and the include-aware YAML loader (yaml_load.py).   *)
(*                                                                         *)
(* Representation.                                                         *)
(*   - A Python str is a sequence of one-character strings, so that        *)
(*     startswith, "in", split, isupper and the template scan are computed *)
(*     character by character as the code computes them.                   *)
(*   - A Python value is a tagged record: Str, Num, Bool, None, List, Map, *)
(*     Delta (datetime.timedelta) and Url (sqlalchemy URL).                *)
(*   - A Python dict is a sequence of [k, v] pairs in insertion order: the *)
(*     order "for key, value in d.items()" visits them.  Keys are str.     *)
(*   - A call that can raise returns [err, val]: err = "none" or the name  *)
(*     of the exception, val the (possibly partly mutated) object.         *)
(***************************************************************************)
EXTENDS Integers, Sequences, FiniteSets, TLC

VARIABLES
    \* --- a direct call of Config._config_over_ride
    mpc,            \* "start" | "done"
    result,         \* the 'result' argument (a dict)
    override,       \* the 'override' argument (a dict)
    mret,           \* what the call returned / raised
    \* --- a load into a Config object
    config,         \* the Config object (self): its items, in order
    pre,            \* the items of the Config object when the load was called
    os_environ,     \* os.environ: the values read under env_name and task_name
    op,             \* the method called
    pc,             \* where the call is
    files,          \* what the call finds on the file system
    silent,         \* the 'silent' argument
    c,              \* from_folder's 'result', then _modify's 'c'
    task_section,   \* _modify's 'task_section'
    ti,             \* resolve_key( c, task_section ): the next item's index
    tprev,          \* c before the item last processed
    hist,           \* the pipeline steps executed so far, in order
    ret,            \* the return value
    exc,            \* the exception the call raised
    \* --- loads of YAML files by my_safe_load
    tables,         \* the anchor tables (dict objects) created so far
    loaders,        \* the active loaders, the outermost first
    nloads,         \* the top-level calls of my_safe_load so far
    lres            \* how the last top-level call ended

mergeVars == <<mpc, result, override, mret>>
loadVars == <<config, pre, os_environ, op, pc, files, silent, c, task_section,
              ti, tprev, hist, ret, exc>>
yamlVars == <<tables, loaders, nloads, lres>>
vars == <<mergeVars, loadVars, yamlVars>>

(***************************************************************************)
(* Python str                                                              *)
(***************************************************************************)
UpperSeq == <<"A","B","C","D","E","F","G","H","I","J","K","L","M",
             "N","O","P","Q","R","S","T","U","V","W","X","Y","Z">>
LowerSeq == <<"a","b","c","d","e","f","g","h","i","j","k","l","m",
             "n","o","p","q","r","s","t","u","v","w","x","y","z">>
UpperChars == {UpperSeq[i] : i \in 1..26}
LowerChars == {LowerSeq[i] : i \in 1..26}
DigitChars == <<"0","1","2","3","4","5","6","7","8","9">>

\* sub in s
Contains(s, sub) ==
    \E i \in 1..(Len(s) - Len(sub) + 1) : SubSeq(s, i, i + Len(sub) - 1) = sub

\* s.startswith(p)
StartsWith(s, p) == Len(s) >= Len(p) /\ SubSeq(s, 1, Len(p)) = p

\* s.endswith(p)
EndsWith(s, p) == Len(s) >= Len(p) /\ SubSeq(s, Len(s) - Len(p) + 1, Len(s)) = p

\* s.lower(), s.upper()
ToLower(s) ==
    [i \in 1..Len(s) |->
        IF s[i] \in UpperChars
        THEN LowerSeq[CHOOSE n \in 1..26 : UpperSeq[n] = s[i]] ELSE s[i]]

ToUpper(s) ==
    [i \in 1..Len(s) |->
        IF s[i] \in LowerChars
        THEN UpperSeq[CHOOSE n \in 1..26 : LowerSeq[n] = s[i]] ELSE s[i]]

\* s.isupper(): at least one cased character and no lower-case one
IsUpper(s) ==
    /\ \E i \in 1..Len(s) : s[i] \in UpperChars
    /\ \A i \in 1..Len(s) : s[i] \notin LowerChars

\* s.split(ch) for a one-character separator: the list of pieces
RECURSIVE SplitFrom(_, _, _, _)
SplitFrom(s, ch, i, cur) ==
    IF i > Len(s) THEN <<cur>>
    ELSE IF s[i] = ch THEN <<cur>> \o SplitFrom(s, ch, i + 1, <<>>)
    ELSE SplitFrom(s, ch, i + 1, Append(cur, s[i]))

Split(s, ch) == SplitFrom(s, ch, 1, <<>>)

\* str(n) for an int
RECURSIVE IntDigits(_)
IntDigits(n) ==
    IF n < 10 THEN <<DigitChars[n + 1]>>
    ELSE IntDigits(n \div 10) \o <<DigitChars[(n % 10) + 1]>>

IntStr(n) == IF n < 0 THEN <<"-">> \o IntDigits(-n) ELSE IntDigits(n)

\* "%02d" % n
TwoDigits(n) == IF n < 10 THEN <<"0">> \o IntDigits(n) ELSE IntDigits(n)

DigitVal(ch) == CHOOSE d \in 0..9 : DigitChars[d + 1] = ch

IsDigit(ch) == \E d \in 1..10 : DigitChars[d] = ch

RECURSIVE DigitsVal(_)
DigitsVal(s) ==
    IF Len(s) = 0 THEN 0
    ELSE 10 * DigitsVal(SubSeq(s, 1, Len(s) - 1)) + DigitVal(s[Len(s)])

\* s.strip() for blanks
RECURSIVE Strip(_)
Strip(s) ==
    IF Len(s) > 0 /\ s[1] = " " THEN Strip(Tail(s))
    ELSE IF Len(s) > 0 /\ s[Len(s)] = " " THEN Strip(SubSeq(s, 1, Len(s) - 1))
    ELSE s

\* the text int() accepts: blanks, an optional sign, decimal digits
IntBody(s) ==
    LET b == Strip(s)
    IN  IF Len(b) > 0 /\ b[1] \in {"-", "+"} THEN Tail(b) ELSE b

IsIntText(s) ==
    /\ Len(IntBody(s)) > 0
    /\ \A i \in 1..Len(IntBody(s)) : IsDigit(IntBody(s)[i])

IntOf(s) ==
    LET b == Strip(s)
    IN  IF b[1] = "-" THEN 0 - DigitsVal(IntBody(s)) ELSE DigitsVal(IntBody(s))

\* sep.join(pieces)
RECURSIVE Join(_, _)
Join(pieces, sep) ==
    IF Len(pieces) = 0 THEN <<>>
    ELSE IF Len(pieces) = 1 THEN pieces[1]
    ELSE pieces[1] \o sep \o Join(Tail(pieces), sep)

(***************************************************************************)
(* Python values and dicts                                                 *)
(***************************************************************************)
Str(s)   == [t |-> "str", s |-> s]
Num(n)   == [t |-> "num", n |-> n]
Bool(b)  == [t |-> "bool", b |-> b]
None     == [t |-> "null"]
List(q)  == [t |-> "seq", q |-> q]
Map(m)   == [t |-> "map", m |-> m]

IsDict(v) == v.t = "map"
IsStr(v)  == v.t = "str"

\* key in d
Has(m, key) == \E i \in 1..Len(m) : m[i].k = key

IndexOf(m, key) == CHOOSE i \in 1..Len(m) : m[i].k = key

\* d[key], for a key that is present
Get(m, key) == m[IndexOf(m, key)].v

\* d[key] = value: an existing key keeps its place, a new one goes last
Put(m, key, value) ==
    IF Has(m, key)
    THEN [m EXCEPT ![IndexOf(m, key)] = [k |-> key, v |-> value]]
    ELSE Append(m, [k |-> key, v |-> value])

KeySet(m) == {m[i].k : i \in 1..Len(m)}

Ok(val)         == [err |-> "none", val |-> val]
Raise(e, val)   == [err |-> e, val |-> val]

(***************************************************************************)
(* str() of a value, as the template engine and str.format apply it        *)
(***************************************************************************)
Delta(days, seconds, us) ==
    [t |-> "delta", days |-> days, seconds |-> seconds, us |-> us]

\* str(timedelta): "[D day[s], ]H:MM:SS[.UUUUUU]"
DeltaStr(d) ==
    LET hh == d.seconds \div 3600
        mm == (d.seconds % 3600) \div 60
        ss == d.seconds % 60
        hms == IntStr(hh) \o <<":">> \o TwoDigits(mm) \o <<":">> \o TwoDigits(ss)
        plural == IF d.days \in {1, -1} THEN <<>> ELSE <<"s">>
        dd == IF d.days = 0 THEN <<>>
              ELSE IntStr(d.days) \o <<" ","d","a","y">> \o plural \o <<","," ">>
        pad == [n \in 1..6 |-> "0"]
        usd == IntDigits(d.us)
        frac == IF d.us = 0 THEN <<>>
                ELSE <<".">> \o SubSeq(pad, 1, 6 - Len(usd)) \o usd
    IN  dd \o hms \o frac

RECURSIVE PyRepr(_)
RECURSIVE ReprItems(_, _)
\* repr(v); a str is quoted without escapes, an URL is the collaborator's text
PyRepr(v) ==
    CASE v.t = "str"   -> <<"'">> \o v.s \o <<"'">>
      [] v.t = "num"   -> IntStr(v.n)
      [] v.t = "bool"  -> IF v.b THEN <<"T","r","u","e">> ELSE <<"F","a","l","s","e">>
      [] v.t = "null"  -> <<"N","o","n","e">>
      [] v.t = "seq"   -> <<"[">> \o ReprItems(v.q, FALSE) \o <<"]">>
      [] v.t = "map"   -> <<"{">> \o ReprItems(v.m, TRUE) \o <<"}">>
      [] v.t = "delta" -> <<"<">> \o DeltaStr(v) \o <<">">>
      [] OTHER         -> <<"<","U","R","L",">">>

ReprItems(q, pairs) ==
    IF Len(q) = 0 THEN <<>>
    ELSE LET one == IF pairs
                    THEN PyRepr(Str(q[1].k)) \o <<":"," ">> \o PyRepr(q[1].v)
                    ELSE PyRepr(q[1])
         IN  IF Len(q) = 1 THEN one
             ELSE one \o <<","," ">> \o ReprItems(Tail(q), pairs)

PyStr(v) ==
    CASE v.t = "str"   -> v.s
      [] v.t = "delta" -> DeltaStr(v)
      [] OTHER         -> PyRepr(v)

(***************************************************************************)
(* mako Template( value ).render( **namespace ), for templates whose       *)
(* expressions are plain names: "${name}" is replaced by str(namespace     *)
(* [name]); the replacement text is output, never scanned again.  An       *)
(* unclosed "${" or an undefined name raises.                              *)
(***************************************************************************)
RECURSIVE RenderFrom(_, _, _)
RenderFrom(s, i, ns) ==
    IF i > Len(s) THEN Ok(<<>>)
    ELSE IF i < Len(s) /\ s[i] = "$" /\ s[i + 1] = "{"
    THEN LET closes == {j \in (i + 2)..Len(s) : s[j] = "}"}
         IN  IF closes = {} THEN Raise("SyntaxException", <<>>)
             ELSE LET j    == CHOOSE j1 \in closes : \A j2 \in closes : j1 <= j2
                      expr == Strip(SubSeq(s, i + 2, j - 1))
                  IN  IF ~Has(ns, expr) THEN Raise("NameError", <<>>)
                      ELSE LET rest == RenderFrom(s, j + 1, ns)
                           IN  IF rest.err # "none" THEN rest
                               ELSE Ok(PyStr(Get(ns, expr)) \o rest.val)
    ELSE LET rest == RenderFrom(s, i + 1, ns)
         IN  IF rest.err # "none" THEN rest ELSE Ok(<<s[i]>> \o rest.val)

Render(s, ns) == RenderFrom(s, 1, ns)

(***************************************************************************)
(* os.path.abspath( os.path.join( root_path, value ) )                     *)
(***************************************************************************)
\* the process working directory, used by abspath for a relative root_path
Cwd == <<"/","w","d">>

PathJoin(a, b) ==
    IF StartsWith(b, <<"/">>) THEN b
    ELSE IF Len(a) = 0 \/ a[Len(a)] = "/" THEN a \o b
    ELSE a \o <<"/">> \o b

RECURSIVE NormComps(_, _, _)
\* posixpath.normpath's loop over the components of an absolute path
NormComps(comps, i, acc) ==
    IF i > Len(comps) THEN acc
    ELSE IF comps[i] \in {<<>>, <<".">>} THEN NormComps(comps, i + 1, acc)
    ELSE IF comps[i] = <<".",".">>
    THEN NormComps(comps, i + 1,
                   IF Len(acc) > 0 THEN SubSeq(acc, 1, Len(acc) - 1) ELSE acc)
    ELSE NormComps(comps, i + 1, Append(acc, comps[i]))

AbsPath(path) ==
    LET p     == IF StartsWith(path, <<"/">>) THEN path ELSE PathJoin(Cwd, path)
        lead  == IF StartsWith(p, <<"/","/">>) /\ ~StartsWith(p, <<"/","/","/">>)
                 THEN <<"/","/">> ELSE <<"/">>
    IN  lead \o Join(NormComps(Split(p, "/"), 1, <<>>), <<"/">>)

(***************************************************************************)
(* datetime.timedelta( **settings )                                        *)
(***************************************************************************)
\* seconds per unit for the keyword arguments counted in seconds
SecondUnits ==
    ( <<"w","e","e","k","s">>         :> 604800 ) @@
    ( <<"d","a","y","s">>             :> 86400 ) @@
    ( <<"h","o","u","r","s">>         :> 3600 ) @@
    ( <<"m","i","n","u","t","e","s">> :> 60 ) @@
    ( <<"s","e","c","o","n","d","s">> :> 1 )

\* microseconds per unit for the keyword arguments counted in microseconds
MicroUnits ==
    ( <<"m","i","l","l","i","s","e","c","o","n","d","s">> :> 1000 ) @@
    ( <<"m","i","c","r","o","s","e","c","o","n","d","s">> :> 1 )

RECURSIVE SumUnits(_, _, _)
SumUnits(settings, units, i) ==
    IF i > Len(settings) THEN 0
    ELSE (IF settings[i].k.s \in DOMAIN units
          THEN units[settings[i].k.s] * settings[i].v.n ELSE 0)
         + SumUnits(settings, units, i + 1)

\* settings: pairs whose key and value are the values func() returned
timedelta(settings) ==
    IF \E i \in 1..Len(settings) :
          \/ settings[i].k.t # "str"
          \/ settings[i].k.s \notin (DOMAIN SecondUnits \cup DOMAIN MicroUnits)
          \/ settings[i].v.t # "num"
    THEN Raise("TypeError", None)
    ELSE LET us   == SumUnits(settings, MicroUnits, 1)
             secs == SumUnits(settings, SecondUnits, 1) + (us \div 1000000)
         IN  Ok(Delta(secs \div 86400, secs % 86400, us % 1000000))

(***************************************************************************)
(* Config._config_over_ride                                                *)
(***************************************************************************)
RECURSIVE over_ride_items(_, _, _)

\* The body of the for loop from the i-th item of override.items() on.
\* 'result' is whatever object the caller passed: when it is not a dict,
\* "key not in result" or "result[ key ] = ..." raises TypeError (str, list:
\* no item assignment by a str key; number, bool, None: not iterable).
over_ride_items(res, items, i) ==
    IF i > Len(items) THEN Ok(res)
    ELSE LET key   == items[i].k
             value == items[i].v
         IN  IF ~IsDict(res) THEN Raise("TypeError", res)
             ELSE IF IsDict(value)
             THEN IF ~Has(res.m, key)
                  THEN over_ride_items(Map(Put(res.m, key, value)), items, i + 1)
                  ELSE LET r == over_ride_items(Get(res.m, key), value.m, 1)
                       IN  IF r.err # "none"
                           THEN Raise(r.err, Map(Put(res.m, key, r.val)))
                           ELSE over_ride_items(Map(Put(res.m, key, r.val)),
                                                items, i + 1)
             ELSE over_ride_items(Map(Put(res.m, key, value)), items, i + 1)

\* override.items() needs a dict (my_safe_load may return None, a str, a list)
config_over_ride(res, ovr) ==
    IF ~IsDict(ovr) THEN Raise("AttributeError", res)
    ELSE over_ride_items(res, ovr.m, 1)

(***************************************************************************)
(* Nested objects: the value at a location (a sequence of keys) of a dict, *)
(* and the dict with the value at a location replaced.                     *)
(***************************************************************************)
RECURSIVE LookupAt(_, _)
LookupAt(v, loc) ==
    IF Len(loc) = 0 THEN v ELSE LookupAt(Get(v.m, loc[1]), Tail(loc))

RECURSIVE SetAt(_, _, _)
SetAt(v, loc, val) ==
    IF Len(loc) = 0 THEN val
    ELSE IF Len(loc) = 1 THEN Map(Put(v.m, loc[1], val))
    ELSE Map(Put(v.m, loc[1], SetAt(Get(v.m, loc[1]), Tail(loc), val)))

IsPrefix(p, q) == Len(p) <= Len(q) /\ SubSeq(q, 1, Len(p)) = p

(***************************************************************************)
(* flask_extended_config.iterator.lookahead: each item of the sequence     *)
(* with a flag that is true while more items follow.                       *)
(***************************************************************************)
lookahead(keys) == [i \in 1..Len(keys) |-> [item |-> keys[i], more |-> i < Len(keys)]]

(***************************************************************************)
(* Config._modify: the task section (resolve_keys, resolve_key)            *)
(***************************************************************************)
RECURSIVE resolve_keys_from(_, _, _, _)
\* the for loop of resolve_keys from the i-th (key, more) on; the object
\* 'path' is mutated in place, so the result is the object with the change
resolve_keys_from(path, items, i, value) ==
    LET key == items[i].item
    IN  IF ~IsDict(path) THEN Raise("TypeError", path)
        ELSE IF items[i].more
        THEN IF ~Has(path.m, key) THEN Raise("KeyError", path)
             ELSE LET r == resolve_keys_from(Get(path.m, key), items, i + 1, value)
                  IN  IF r.err # "none" THEN Raise(r.err, path)
                      ELSE Ok(Map(Put(path.m, key, r.val)))
        ELSE Ok(Map(Put(path.m, key, value)))

\* resolve_keys writing at the first segment only
resolve_keys_first_segment(path, keys, value) ==
    IF ~IsDict(path) THEN Raise("TypeError", path)
    ELSE Ok(Map(Put(path.m, keys[1], value)))

resolve_keys(path, keys, value) == resolve_keys_from(path, lookahead(keys), 1, value)

\* resolve_key runs on the objects of c themselves.  Its state is c (root)
\* and one frame per active call: the location loc in c of the call's
\* 'path' object when the call began, the object cur, and att: whether c
\* still holds that object at loc.  A dotted key writes into c from the top
\* and so may replace the slot that holds an active call's 'path'; that
\* call then goes on with an object c no longer holds.
\* c after a write by a dotted key with segments w
AfterRootWrite(st, root, w) ==
    [root   |-> root,
     frames |-> [n \in 1..Len(st.frames) |->
                   LET f == st.frames[n]
                   IN  IF ~f.att THEN f
                       ELSE IF IsPrefix(w, f.loc) THEN [f EXCEPT !.att = FALSE]
                       ELSE [f EXCEPT !.cur = LookupAt(root, f.loc)]]]

\* path[ key ] = value in the innermost active call
FrameWrite(st, key, value) ==
    LET n    == Len(st.frames)
        f    == st.frames[n]
        cur  == Map(Put(f.cur.m, key, value))
        root == IF f.att THEN SetAt(st.root, f.loc \o <<key>>, value) ELSE st.root
    IN  [root   |-> root,
         frames |-> [j \in 1..n |->
                       IF j = n THEN [f EXCEPT !.cur = cur]
                       ELSE IF st.frames[j].att
                       THEN [st.frames[j] EXCEPT !.cur = LookupAt(root, st.frames[j].loc)]
                       ELSE st.frames[j]]]

RECURSIVE resolve_key_item(_, _, _)
RECURSIVE resolve_key_items(_, _, _)

\* one pass of the body of resolve_key's for loop
resolve_key_item(st, key, value) ==
    LET n == Len(st.frames)
        f == st.frames[n]
    IN  IF Contains(key, <<".">>)
        THEN LET w == Split(key, ".")
                 r == resolve_keys(st.root, w, value)
             IN  IF r.err # "none" THEN Raise(r.err, st)
                 ELSE Ok(AfterRootWrite(st, r.val, w))
        ELSE IF ~IsDict(f.cur) THEN Raise("TypeError", st)
        ELSE IF IsDict(value) /\ Has(f.cur.m, key)
        THEN LET child == [loc |-> f.loc \o <<key>>,
                           cur |-> Get(f.cur.m, key),
                           att |-> f.att]
                 r == resolve_key_items([st EXCEPT !.frames = Append(@, child)],
                                        value.m, 1)
             IN  IF r.err # "none" THEN r
                 ELSE Ok(FrameWrite([r.val EXCEPT !.frames = SubSeq(@, 1, n)],
                                    key, r.val.frames[n + 1].cur))
        ELSE Ok(FrameWrite(st, key, value))

resolve_key_items(st, upd, i) ==
    IF i > Len(upd) THEN Ok(st)
    ELSE LET r == resolve_key_item(st, upd[i].k, upd[i].v)
         IN  IF r.err # "none" THEN r ELSE resolve_key_items(r.val, upd, i + 1)

\* the state of the outermost call resolve_key( c, task_section )
RootFrame(doc) ==
    [root |-> doc, frames |-> <<[loc |-> <<>>, cur |-> doc, att |-> TRUE]>>]

\* resolve_key( c, task_section ): c afterwards
resolve_key(doc, upd) ==
    LET r == resolve_key_items(RootFrame(doc), upd, 1)
    IN  [err |-> r.err, val |-> r.val.root]

(***************************************************************************)
(* Config._modify: the loop over c.keys()                                  *)
(***************************************************************************)
\* Config.root_path
root_path == <<"/","a","p","p">>

delta_keys == { <<"P","E","R","M","A","N","E","N","T","_","S","E","S","S","I","O","N","_","L","I","F","E","T","I","M","E">>,
                <<"S","E","N","D","_","F","I","L","E","_","M","A","X","_","A","G","E","_","D","E","F","A","U","L","T">>,
                <<"J","W","T","_","A","C","C","E","S","S","_","T","O","K","E","N","_","E","X","P","I","R","E","S">>,
                <<"J","W","T","_","R","E","F","R","E","S","H","_","T","O","K","E","N","_","E","X","P","I","R","E","S">> }

\* func( value ): the int when int( value ) succeeds, else the value
func(value) == IF IsIntText(value) THEN Num(IntOf(value)) ELSE Str(value)

RECURSIVE SettingsFrom(_, _, _)
\* dict( map( func, x.split( '=' ) ) for x in pieces ): every piece must
\* yield exactly two items; a repeated name keeps its last value
SettingsFrom(pieces, i, acc) ==
    IF i > Len(pieces) THEN Ok(acc)
    ELSE LET parts == Split(pieces[i], "=")
         IN  IF Len(parts) # 2 THEN Raise("ValueError", acc)
             ELSE SettingsFrom(pieces, i + 1,
                               Put(acc, func(parts[1]), func(parts[2])))

\* '=' in c[ key ]: "in" of a str, a list or a dict; anything else raises
EqualsIn(value) ==
    CASE value.t = "str" -> Ok(Contains(value.s, <<"=">>))
      [] value.t = "seq" -> Ok(\E i \in 1..Len(value.q) : value.q[i] = Str(<<"=">>))
      [] value.t = "map" -> Ok(Has(value.m, <<"=">>))
      [] OTHER           -> Raise("TypeError", FALSE)

\* the else branch of the PATH test, for the key of c with this value
modify_other(self, key, value) ==
    IF key \in delta_keys
    THEN LET e == EqualsIn(value)
         IN  IF e.err # "none" THEN Raise(e.err, self)
             ELSE IF e.val
             THEN IF ~IsStr(value) THEN Raise("AttributeError", self)
                  ELSE LET st == SettingsFrom(Split(value.s, ","), 1, <<>>)
                           td == timedelta(st.val)
                       IN  IF st.err # "none" THEN Raise(st.err, self)
                           ELSE IF td.err # "none" THEN Raise(td.err, self)
                           ELSE Ok(Put(self, key, td.val))
             ELSE Ok(Put(self, key, value))
    ELSE Ok(Put(self, key, value))

\* the body of "for key in c.keys()" for one key
modify_key(self, key, value) ==
    IF ~IsUpper(key) THEN Ok(self)
    ELSE IF Contains(key, <<"P","A","T","H">>)
    THEN IF ~IsStr(value) THEN Raise("AttributeError", self)
         ELSE IF StartsWith(value.s, <<".">>)
         THEN Ok(Put(self, key, Str(AbsPath(PathJoin(root_path, value.s)))))
         ELSE modify_other(self, key, value)
    ELSE modify_other(self, key, value)

RECURSIVE modify_keys(_, _, _)
\* the loop from the i-th key of c on; self keeps what was stored before
\* a key raised
modify_keys(self, items, i) ==
    IF i > Len(items) THEN Ok(self)
    ELSE LET r == modify_key(self, items[i].k, items[i].v)
         IN  IF r.err # "none" THEN r ELSE modify_keys(r.val, items, i + 1)

\* c.keys() needs a dict
modify_loop(self, doc) ==
    IF ~IsDict(doc) THEN Raise("AttributeError", self) ELSE modify_keys(self, doc.m, 1)

(***************************************************************************)
(* Config._resolve_variables                                               *)
(***************************************************************************)
RECURSIVE resolve_node(_, _, _)
\* the loop over node.items() from the i-th item on, node being the dict
\* at loc in self.  Each render takes dict( self ) as it is at that moment.
resolve_node(self, loc, i) ==
    LET node == LookupAt(Map(self), loc).m
    IN  IF i > Len(node) THEN Ok(self)
        ELSE LET key   == node[i].k
                 value == node[i].v
             IN  IF IsStr(value)
                 THEN IF Contains(value.s, <<"$","{">>)
                      THEN LET r == Render(value.s, self)
                           IN  IF r.err # "none" THEN Raise("Exception", self)
                               ELSE resolve_node(
                                      SetAt(Map(self), loc \o <<key>>, Str(r.val)).m,
                                      loc, i + 1)
                      ELSE resolve_node(self, loc, i + 1)
                 ELSE IF IsDict(value)
                 THEN LET r == resolve_node(self, loc \o <<key>>, 1)
                      IN  IF r.err # "none" THEN r
                          ELSE resolve_node(r.val, loc, i + 1)
                 ELSE resolve_node(self, loc, i + 1)

resolve_variables(self) == resolve_node(self, <<>>, 1)

(***************************************************************************)
(* SqlalchemyUrl.from_config_dict                                          *)
(***************************************************************************)
kENGINE   == <<"E","N","G","I","N","E">>
kDATABASE == <<"D","A","T","A","B","A","S","E">>
kSCHEMA   == <<"S","C","H","E","M","A">>
kHOST     == <<"H","O","S","T">>
kPORT     == <<"P","O","R","T">>
kUSERNAME == <<"U","S","E","R","N","A","M","E">>
kPASSWORD == <<"P","A","S","S","W","O","R","D">>
kOPTIONS  == <<"O","P","T","I","O","N","S">>
kURI      == <<"S","Q","L","A","L","C","H","E","M","Y","_","D","A","T","A","B","A","S","E","_","U","R","I">>

\* URL.create's check of the port: int( port )
UrlPort(v) ==
    CASE v.t = "num"  -> Ok(v)
      [] v.t = "null" -> Ok(v)
      [] v.t = "bool" -> Ok(Num(IF v.b THEN 1 ELSE 0))
      [] v.t = "str"  -> IF IsIntText(v.s) THEN Ok(Num(IntOf(v.s)))
                         ELSE Raise("ValueError", v)
      [] OTHER        -> Raise("TypeError", v)

\* URL.create's check of the query: a dict of str or sequences of str
UrlQueryOk(q) ==
    /\ IsDict(q)
    /\ \A i \in 1..Len(q.m) :
          \/ IsStr(q.m[i].v)
          \/ q.m[i].v.t = "seq" /\ \A j \in 1..Len(q.m[i].v.q) : IsStr(q.m[i].v.q[j])

\* cls.create( **settings ): 'schema' is no parameter of URL.create
UrlCreate(settings) ==
    LET opt(key) == IF Has(settings, key) THEN Get(settings, key) ELSE None
        strOrNone(key) == opt(key).t \in {"str", "null"}
        port == UrlPort(opt(<<"p","o","r","t">>))
        query == IF Has(settings, <<"q","u","e","r","y">>)
                 THEN Get(settings, <<"q","u","e","r","y">>) ELSE Map(<<>>)
    IN  IF Has(settings, <<"s","c","h","e","m","a">>) THEN Raise("TypeError", None)
        ELSE IF ~IsStr(opt(<<"d","r","i","v","e","r","n","a","m","e">>))
                \/ ~strOrNone(<<"u","s","e","r","n","a","m","e">>)
                \/ ~strOrNone(<<"h","o","s","t">>)
                \/ ~strOrNone(<<"d","a","t","a","b","a","s","e">>)
                \/ ~UrlQueryOk(query)
        THEN Raise("TypeError", None)
        ELSE IF port.err # "none" THEN Raise(port.err, None)
        ELSE Ok([t          |-> "url",
                 drivername |-> opt(<<"d","r","i","v","e","r","n","a","m","e">>),
                 username   |-> opt(<<"u","s","e","r","n","a","m","e">>),
                 password   |-> opt(<<"p","a","s","s","w","o","r","d">>),
                 host       |-> opt(<<"h","o","s","t">>),
                 port       |-> port.val,
                 database   |-> opt(<<"d","a","t","a","b","a","s","e">>),
                 query      |-> query])

\* The result is [err, val, data]: the URL, and the 'data' dict after the
\* call.  settings[ 'query' ] is the OPTIONS object itself, so the
\* setdefault( 'query', {} )[ 'options' ] = ... of a postgresql engine
\* writes into data[ 'OPTIONS' ].
from_config_dict(data) ==
    LET fail(e, d) == [err |-> e, val |-> None, data |-> d]
        has(key) == Has(data.m, key)
        get(key) == Get(data.m, key)
        set(st, name, key) == Put(st, name, get(key))
        engine == get(kENGINE)
        s0 == <<[k |-> <<"d","r","i","v","e","r","n","a","m","e">>, v |-> engine]>>
        other ==
            LET w1 == set(s0, <<"d","a","t","a","b","a","s","e">>, kDATABASE)
                w2 == IF ~has(kHOST)
                     THEN Put(w1, <<"h","o","s","t">>, Str(<<"l","o","c","a","l","h","o","s","t">>))
                     ELSE set(set(w1, <<"h","o","s","t">>, kHOST), <<"p","o","r","t">>, kPORT)
                w3 == IF has(kUSERNAME) THEN set(w2, <<"u","s","e","r","n","a","m","e">>, kUSERNAME) ELSE w2
            IN  IF has(kPASSWORD) THEN set(w3, <<"p","a","s","s","w","o","r","d">>, kPASSWORD) ELSE w3
        isOracle == engine = Str(<<"o","r","a","c","l","e">>) /\ has(kSCHEMA) /\ ~has(kHOST)
        s1 == IF engine = Str(<<"s","q","l","i","t","e">>)
              THEN set(s0, <<"d","a","t","a","b","a","s","e">>, kDATABASE)
              ELSE IF isOracle THEN set(s0, <<"s","c","h","e","m","a">>, kSCHEMA)
              ELSE other
        s2 == IF has(kOPTIONS) THEN set(s1, <<"q","u","e","r","y">>, kOPTIONS) ELSE s1
        search == Str(<<"-","c"," ","s","e","a","r","c","h","_","p","a","t","h","=">> \o PyStr(get(kSCHEMA)))
        pg == StartsWith(engine.s, <<"p","o","s","t","g","r","e","s","q","l">>) /\ has(kSCHEMA)
        query == IF has(kOPTIONS) THEN get(kOPTIONS) ELSE Map(<<>>)
        query2 == Map(Put(query.m, <<"o","p","t","i","o","n","s">>, search))
        s3 == IF pg THEN Put(s2, <<"q","u","e","r","y">>, query2) ELSE s2
        data3 == IF pg /\ has(kOPTIONS) THEN Map(Put(data.m, kOPTIONS, query2)) ELSE data
        url == UrlCreate(s3)
    IN  IF ~IsDict(data) THEN fail("TypeError", data)
        ELSE IF ~has(kENGINE) THEN fail("KeyError", data)
        ELSE IF (engine = Str(<<"s","q","l","i","t","e">>) \/ ~isOracle) /\ ~has(kDATABASE)
        THEN fail("KeyError", data)
        ELSE IF engine # Str(<<"s","q","l","i","t","e">>) /\ ~isOracle /\ has(kHOST) /\ ~has(kPORT)
        THEN fail("KeyError", data)
        ELSE IF ~IsStr(engine) THEN fail("AttributeError", data)
        ELSE IF pg /\ ~IsDict(query) THEN fail("TypeError", data)
        ELSE [err |-> url.err, val |-> url.val, data |-> data3]

\* the last statements of _modify: the URI is built from self[ 'DATABASE' ]
modify_database(self) ==
    IF Has(self, kDATABASE) /\ ~Has(self, kURI)
    THEN LET r == from_config_dict(Get(self, kDATABASE))
             kept == Put(self, kDATABASE, r.data)
         IN  IF r.err # "none" THEN Raise(r.err, kept)
             ELSE Ok(Put(kept, kURI, r.val))
    ELSE Ok(self)

(***************************************************************************)
(* Files and the process environment                                       *)
(***************************************************************************)
\* A file: absent, a directory, unreadable, unparsable or a parsed document
File(st, doc) == [st |-> st, doc |-> doc]
Absent    == File("absent", None)
IsDir     == File("isdir", None)
Denied    == File("denied", None)
Malformed == File("bad", None)
Doc(d)    == File("ok", Map(d))
\* an overlay folder that is no directory
NoDir     == File("nodir", None)

\* my_safe_load( stream ) / json.load( stream ) of an opened file
safe_load(f) == IF f.st = "bad" THEN Raise("ParseError", None) ELSE Ok(f.doc)

kLOGGING      == <<"L","O","G","G","I","N","G">>
kENVIRONMENT  == <<"E","N","V","I","R","O","N","M","E","N","T">>
kENV          == <<"E","N","V">>
kTASK         == <<"T","A","S","K">>
kCOMMON_TASKS == <<"C","O","M","M","O","N","_","T","A","S","K","S">>
kinport       == <<"i","n","p","o","r","t">>

\* os.environ.get( name, default )
environ_get(value, default) == IF value = None THEN default ELSE value.s

(***************************************************************************)
(* Config.from_folder, up to the call of _modify                           *)
(***************************************************************************)
\* lines 161-169: the folder and the master configuration
load_master(fs) ==
    IF ~fs.folder THEN Raise("Exception", None)
    ELSE IF fs.master.st # "ok" /\ fs.master.st # "bad" THEN Raise("Exception", None)
    ELSE safe_load(fs.master)

\* lines 171-182: a LOGGING entry that names a file is replaced by the file
load_logging(res, fs) ==
    IF ~IsDict(res) THEN Raise("TypeError", res)
    ELSE IF ~Has(res.m, kLOGGING) THEN Raise("KeyError", res)
    ELSE LET v == Get(res.m, kLOGGING)
         IN  IF IsStr(v) /\ \E suffix \in {<<".","j","s","o","n">>, <<".","c","o","n","f">>, <<".","y","a","m","l">>} :
                                 EndsWith(ToLower(v.s), suffix)
             THEN IF fs.logging.st = "absent" THEN Ok(res)
                  ELSE IF fs.logging.st # "ok" THEN Raise("ParseError", res)
                  ELSE Ok(Map(Put(res.m, kLOGGING, fs.logging.doc)))
             ELSE Ok(res)

\* lines 184-187: the host overlay
apply_host(res, fs) ==
    IF fs.host.st = "absent" THEN Ok(res)
    ELSE IF fs.host.st # "ok" THEN Raise("ParseError", res)
    ELSE config_over_ride(res, fs.host.doc)

\* Config._config_inject; overlay is <folder>/<section_name>.conf
config_inject(res, overlay, section_name, target) ==
    LET merged == IF overlay.st \in {"nodir", "absent"} THEN Ok(res)
                  ELSE IF overlay.st # "ok" THEN Raise("ParseError", res)
                  ELSE config_over_ride(res, overlay.doc)
        named == IF target = kENV
                 THEN Put(merged.val.m, kENVIRONMENT, Str(section_name))
                 ELSE merged.val.m
    IN  IF merged.err # "none" THEN merged
        ELSE IF ~IsDict(merged.val) THEN Raise("TypeError", merged.val)
        ELSE Ok(Map(Put(named, target, Str(section_name))))

DEVELOPMENT == <<"D","E","V","E","L","O","P","M","E","N","T">>
webapp      == <<"w","e","b","a","p","p">>

(***************************************************************************)
(* Config.from_yaml and Config.from_json, up to the call of _modify        *)
(***************************************************************************)
\* d.get( key, default ) of a dict
DictGet(d, key, default) == IF Has(d.m, key) THEN Get(d.m, key) ELSE default

\* c.get( 'COMMON_TASKS', {} ).get( task, {} )
task_section_of(doc, task) ==
    LET tasks == DictGet(doc, kCOMMON_TASKS, Map(<<>>))
    IN  IF ~IsDict(tasks) THEN Raise("AttributeError", None)
        ELSE Ok(DictGet(tasks, task, Map(<<>>)))

\* from_yaml after the file was read: the arguments of _modify
yaml_arguments(doc, env, task) ==
    IF ~IsDict(doc) THEN [err |-> "AttributeError", c |-> None, task_section |-> None]
    ELSE LET ts == task_section_of(doc, task)
         IN  [err |-> ts.err, c |-> DictGet(doc, env, doc), task_section |-> ts.val]

\* 'inport' in segment
inport_in(segment) ==
    CASE segment.t = "map" -> Ok(Has(segment.m, kinport))
      [] segment.t = "str" -> Ok(Contains(segment.s, kinport))
      [] segment.t = "seq" -> Ok(\E i \in 1..Len(segment.q) : segment.q[i] = Str(kinport))
      [] OTHER             -> Raise("TypeError", FALSE)

RECURSIVE dict_update(_, _, _)
\* c.update( segment )
dict_update(d, items, i) ==
    IF i > Len(items) THEN d
    ELSE dict_update(Put(d, items[i].k, items[i].v), items, i + 1)

\* from_json after the file was read: the arguments of _modify
json_arguments(doc, env, task) ==
    LET fail(e) == [err |-> e, c |-> None, task_section |-> None]
        segment == DictGet(doc, env, doc)
        ins == inport_in(segment)
        name == Get(segment.m, kinport)
        imported == IF IsStr(name) THEN DictGet(doc, name.s, Map(<<>>)) ELSE Map(<<>>)
        joined == Map(dict_update(imported.m, segment.m, 1))
        c2 == IF ins.val THEN joined ELSE doc
        seg2 == IF ins.val THEN joined ELSE segment
        ts == IF Has(c2.m, kCOMMON_TASKS) THEN task_section_of(c2, task)
              ELSE Ok(Map(<<>>))
    IN  IF ~IsDict(doc) THEN fail("AttributeError")
        ELSE IF ins.err # "none" THEN fail(ins.err)
        ELSE IF ins.val /\ ~IsDict(segment) THEN fail("TypeError")
        ELSE IF ins.val /\ name.t \in {"map", "seq"} THEN fail("TypeError")
        ELSE IF ins.val /\ ~IsDict(imported) THEN fail("AttributeError")
        ELSE [err |-> ts.err, c |-> seg2, task_section |-> ts.val]

(***************************************************************************)
(* Inputs of the direct merge calls                                        *)
(***************************************************************************)
kA == <<"A">>
kB == <<"B">>
sx == <<"x">>
sy == <<"y">>

\* every shape a ConfigDocument value can take
Leaves == {Str(sx), Num(1), Bool(TRUE), None, List(<<Num(1)>>)}
InnerLeaves == {Str(sx), Str(sy), Num(1)}

\* dicts with key A only, holding a leaf
Maps1 == {<<>>} \cup {<<[k |-> kA, v |-> v]>> : v \in InnerLeaves}

\* dicts over the keys A, B (in that order), holding leaves or Maps1 dicts
Vals2 == InnerLeaves \cup {Map(m) : m \in Maps1}
OptPair(key, vs) == {<<>>} \cup {<<[k |-> key, v |-> v]>> : v \in vs}
Maps2 == {a \o b : a \in OptPair(kA, Vals2), b \in OptPair(kB, Vals2)}

\* top level dicts: key A holds any leaf or a Maps2 dict, key B a leaf
Vals3 == Leaves \cup {Map(m) : m \in Maps2}
MergeDocs == {a \o b : a \in OptPair(kA, Vals3), b \in OptPair(kB, InnerLeaves)}

MergeInit ==
    /\ mpc = "start"
    /\ result \in MergeDocs
    /\ override \in MergeDocs
    /\ mret = Ok(None)

\* no direct merge call is modelled
MergeIdle ==
    /\ mpc = "idle"
    /\ result = <<>>
    /\ override = <<>>
    /\ mret = Ok(None)

\* result = self._config_over_ride( result, override )
CallOverRide ==
    /\ mpc = "start"
    /\ mret' = config_over_ride(Map(result), Map(override))
    /\ mpc' = "done"
    /\ UNCHANGED <<result, override>>
    /\ UNCHANGED <<loadVars, yamlVars>>

(***************************************************************************)
(* Inputs of the loads                                                     *)
(***************************************************************************)
\* the LOGGING entry of a master document: none, a dict, a file name
LoggingHeads ==
    { <<>>,
      <<[k |-> <<"L","O","G","G","I","N","G">>, v |-> Map(<<[k |-> <<"v","e","r","s","i","o","n">>, v |-> Num(1)]>>)]>>,
      <<[k |-> <<"L","O","G","G","I","N","G">>, v |-> Str(<<"l","o","g",".","y","a","m","l">>)]>> }

\* what a master document holds besides LOGGING
Payloads ==
    { <<>>,
      <<[k |-> <<"X">>, v |-> Str(<<"$","{","Y","}">>)], [k |-> <<"Y">>, v |-> Str(<<"$","{","Z","}">>)], [k |-> <<"Z">>, v |-> Str(<<"d","o","n","e">>)]>>,
      <<[k |-> <<"X">>, v |-> Str(<<"$","{","Y","}">>)], [k |-> <<"Z">>, v |-> Str(<<"d","o","n","e">>)], [k |-> <<"Y">>, v |-> Str(<<"$","{","Z","}">>)]>>,
      <<[k |-> <<"Y">>, v |-> Str(<<"$","{","Z","}">>)], [k |-> <<"X">>, v |-> Str(<<"$","{","Y","}">>)], [k |-> <<"Z">>, v |-> Str(<<"d","o","n","e">>)]>>,
      <<[k |-> <<"Y">>, v |-> Str(<<"$","{","Z","}">>)], [k |-> <<"Z">>, v |-> Str(<<"d","o","n","e">>)], [k |-> <<"X">>, v |-> Str(<<"$","{","Y","}">>)]>>,
      <<[k |-> <<"Z">>, v |-> Str(<<"d","o","n","e">>)], [k |-> <<"X">>, v |-> Str(<<"$","{","Y","}">>)], [k |-> <<"Y">>, v |-> Str(<<"$","{","Z","}">>)]>>,
      <<[k |-> <<"Z">>, v |-> Str(<<"d","o","n","e">>)], [k |-> <<"Y">>, v |-> Str(<<"$","{","Z","}">>)], [k |-> <<"X">>, v |-> Str(<<"$","{","Y","}">>)]>>,
      <<[k |-> <<"X">>, v |-> Str(<<"1">>)], [k |-> <<"Y">>, v |-> Str(<<"$","{","X","}","-","2">>)]>>,
      <<[k |-> <<"Y">>, v |-> Str(<<"$","{","X","}","-","2">>)], [k |-> <<"X">>, v |-> Str(<<"1">>)]>>,
      <<[k |-> <<"L","O","G","_","P","A","T","H">>, v |-> Str(<<".","/","l","o","g","s">>)]>>,
      <<[k |-> <<"L","O","G","_","P","A","T","H">>, v |-> Str(<<"/","a","b","s","/","l","o","g","s">>)]>>,
      <<[k |-> <<"L","O","G","_","P","A","T","H">>, v |-> Num(5)]>>,
      <<[k |-> <<"L","O","G","_","P","A","T","H">>, v |-> Str(<<".",".","/","u","p","/",".","/","l","o","g","s">>)]>>,
      <<[k |-> <<"P","E","R","M","A","N","E","N","T","_","S","E","S","S","I","O","N","_","L","I","F","E","T","I","M","E">>, v |-> Str(<<"d","a","y","s","=","1",",","h","o","u","r","s","=","2">>)]>>,
      <<[k |-> <<"P","E","R","M","A","N","E","N","T","_","S","E","S","S","I","O","N","_","L","I","F","E","T","I","M","E">>, v |-> Num(3600)]>>,
      <<[k |-> <<"J","W","T","_","A","C","C","E","S","S","_","T","O","K","E","N","_","E","X","P","I","R","E","S">>, v |-> Str(<<"m","i","n","u","t","e","s","=","x">>)]>>,
      <<[k |-> <<"D","A","T","A","B","A","S","E">>, v |-> Map(<<[k |-> <<"E","N","G","I","N","E">>, v |-> Str(<<"s","q","l","i","t","e">>)], [k |-> <<"D","A","T","A","B","A","S","E">>, v |-> Str(<<"a","p","p",".","d","b">>)]>>)]>>,
      <<[k |-> <<"D","A","T","A","B","A","S","E">>, v |-> Map(<<[k |-> <<"E","N","G","I","N","E">>, v |-> Str(<<"p","o","s","t","g","r","e","s","q","l">>)], [k |-> <<"D","A","T","A","B","A","S","E">>, v |-> Str(<<"d">>)], [k |-> <<"H","O","S","T">>, v |-> Str(<<"h">>)], [k |-> <<"P","O","R","T">>, v |-> Num(5432)], [k |-> <<"S","C","H","E","M","A">>, v |-> Str(<<"s">>)], [k |-> <<"O","P","T","I","O","N","S">>, v |-> Map(<<[k |-> <<"s","s","l","m","o","d","e">>, v |-> Str(<<"r","e","q","u","i","r","e">>)]>>)]>>)]>>,
      <<[k |-> <<"D","A","T","A","B","A","S","E">>, v |-> Map(<<[k |-> <<"E","N","G","I","N","E">>, v |-> Str(<<"s","q","l","i","t","e">>)], [k |-> <<"D","A","T","A","B","A","S","E">>, v |-> Str(<<"a","p","p",".","d","b">>)]>>)], [k |-> <<"S","Q","L","A","L","C","H","E","M","Y","_","D","A","T","A","B","A","S","E","_","U","R","I">>, v |-> Str(<<"s","q","l","i","t","e",":","/","/","/","x",".","d","b">>)]>>,
      <<[k |-> <<"D","A","T","A","B","A","S","E">>, v |-> Map(<<[k |-> <<"E","N","G","I","N","E">>, v |-> Str(<<"m","y","s","q","l">>)], [k |-> <<"D","A","T","A","B","A","S","E">>, v |-> Str(<<"d">>)], [k |-> <<"H","O","S","T">>, v |-> Str(<<"h">>)]>>)]>>,
      <<[k |-> <<"d","e","b","u","g">>, v |-> Str(<<"x">>)], [k |-> <<"A","P","P">>, v |-> Map(<<[k |-> <<"N","A","M","E">>, v |-> Str(<<"n">>)], [k |-> <<"H","O","M","E">>, v |-> Str(<<"$","{","R","O","O","T","}","/","n">>)]>>)], [k |-> <<"R","O","O","T">>, v |-> Str(<<"/","s","r","v">>)]>>,
      <<[k |-> <<"B","A","D">>, v |-> Str(<<"$","{","M","I","S","S","I","N","G","}">>)]>>,
      <<[k |-> <<"A","P","P">>, v |-> Map(<<[k |-> <<"N","A","M","E">>, v |-> Str(<<"n">>)]>>)], [k |-> <<"X">>, v |-> Str(<<"1">>)], [k |-> <<"E","N","V">>, v |-> Str(<<"m","i","n","e">>)]>> }
MasterDocs == {h \o d : h \in LoggingHeads, d \in Payloads}

\* config.conf: absent, unparsable, empty (None) or a document
MasterFiles == {Absent, Malformed, File("ok", None)} \cup {Doc(d) : d \in MasterDocs}

FolderFiles ==
    [folder  : {TRUE},
     master  : MasterFiles,
     logging : {Absent, Doc(<<[k |-> <<"v","e","r","s","i","o","n">>, v |-> Num(2)]>>)},
     host    : {Absent, Doc(<<[k |-> <<"A","P","P">>, v |-> Map(<<[k |-> <<"N","A","M","E">>, v |-> Str(<<"m">>)], [k |-> <<"P","O","R","T">>, v |-> Num(1)]>>)]>>)},
     environ : {NoDir, Absent, Malformed, Doc(<<[k |-> <<"X">>, v |-> Str(<<"2">>)]>>), Doc(<<[k |-> <<"X">>, v |-> Map(<<[k |-> <<"N">>, v |-> Str(<<"1">>)]>>)]>>)},
     tasks   : {NoDir, Absent, Doc(<<[k |-> <<"A","P","P">>, v |-> Str(<<"f","l","a","t">>)]>>)}]
    \cup
    [folder  : {FALSE}, master : {Absent}, logging : {Absent}, host : {Absent},
     environ : {NoDir}, tasks : {NoDir}]

\* a single configuration file, for from_yaml and from_json
SingleFile(f) ==
    [folder |-> TRUE, master |-> f, logging |-> Absent, host |-> Absent,
     environ |-> NoDir, tasks |-> NoDir]

\* documents for from_yaml: plain, or with environment segments and COMMON_TASKS
YamlDocs ==
    { <<[k |-> <<"X">>, v |-> Str(<<"1">>)], [k |-> <<"L","O","G","_","P","A","T","H">>, v |-> Str(<<".","/","l">>)]>>,
      <<[k |-> <<"D","E","V","E","L","O","P","M","E","N","T">>, v |-> Map(<<[k |-> <<"X">>, v |-> Str(<<"1">>)], [k |-> <<"A","P","P">>, v |-> Map(<<[k |-> <<"N","A","M","E">>, v |-> Str(<<"n">>)]>>)]>>)], [k |-> <<"P","R","O","D">>, v |-> Map(<<[k |-> <<"X">>, v |-> Str(<<"2">>)], [k |-> <<"A","P","P">>, v |-> Map(<<[k |-> <<"N","A","M","E">>, v |-> Str(<<"p">>)], [k |-> <<"B">>, v |-> Map(<<[k |-> <<"C">>, v |-> Num(1)]>>)]>>)]>>)], [k |-> <<"C","O","M","M","O","N","_","T","A","S","K","S">>, v |-> Map(<<[k |-> <<"w","e","b","a","p","p">>, v |-> Map(<<[k |-> <<"X">>, v |-> Str(<<"9">>)], [k |-> <<"A","P","P">>, v |-> Map(<<[k |-> <<"N","A","M","E">>, v |-> Str(<<"w">>)]>>)]>>)], [k |-> <<"w","o","r","k","e","r">>, v |-> Map(<<[k |-> <<"A","P","P",".","B",".","C">>, v |-> Num(5)], [k |-> <<"A","P","P",".","N","A","M","E">>, v |-> Str(<<"k">>)]>>)]>>)]>>,
      <<[k |-> <<"D","E","V","E","L","O","P","M","E","N","T">>, v |-> Map(<<[k |-> <<"X">>, v |-> Str(<<"$","{","Y","}">>)], [k |-> <<"Y">>, v |-> Str(<<"$","{","Z","}">>)], [k |-> <<"Z">>, v |-> Str(<<"d","o","n","e">>)]>>)], [k |-> <<"P","R","O","D">>, v |-> Map(<<[k |-> <<"Y">>, v |-> Str(<<"$","{","Z","}">>)], [k |-> <<"X">>, v |-> Str(<<"$","{","Y","}">>)], [k |-> <<"Z">>, v |-> Str(<<"d","o","n","e">>)]>>)], [k |-> <<"C","O","M","M","O","N","_","T","A","S","K","S">>, v |-> Map(<<[k |-> <<"w","e","b","a","p","p">>, v |-> Map(<<[k |-> <<"Q",".","R">>, v |-> Num(1)]>>)], [k |-> <<"w","o","r","k","e","r">>, v |-> Map(<<[k |-> <<"Z">>, v |-> Str(<<"l","a","t","e">>)]>>)]>>)]>>,
      <<[k |-> <<"D","E","V","E","L","O","P","M","E","N","T">>, v |-> Map(<<[k |-> <<"P","E","R","M","A","N","E","N","T","_","S","E","S","S","I","O","N","_","L","I","F","E","T","I","M","E">>, v |-> Num(3600)]>>)], [k |-> <<"P","R","O","D">>, v |-> Map(<<[k |-> <<"L","O","G","_","P","A","T","H">>, v |-> Str(<<".","/","l">>)], [k |-> <<"D","A","T","A","B","A","S","E">>, v |-> Map(<<[k |-> <<"E","N","G","I","N","E">>, v |-> Str(<<"s","q","l","i","t","e">>)], [k |-> <<"D","A","T","A","B","A","S","E">>, v |-> Str(<<"a","p","p",".","d","b">>)]>>)]>>)], [k |-> <<"C","O","M","M","O","N","_","T","A","S","K","S">>, v |-> Str(<<"n","o","n","e">>)]>>,
      <<[k |-> <<"X">>, v |-> Str(<<"1">>)], [k |-> <<"C","O","M","M","O","N","_","T","A","S","K","S">>, v |-> Map(<<[k |-> <<"w","e","b","a","p","p">>, v |-> Str(<<"t","e","x","t">>)], [k |-> <<"w","o","r","k","e","r">>, v |-> Map(<<[k |-> <<"X">>, v |-> Map(<<[k |-> <<"N">>, v |-> Num(1)]>>)]>>)]>>)]>> }
\* documents for from_json: segments, 'inport' and COMMON_TASKS
JsonDocs ==
    { <<[k |-> <<"X">>, v |-> Str(<<"1">>)]>>,
      <<[k |-> <<"d","e","v","e","l","o","p","m","e","n","t">>, v |-> Str(<<"t","e","x","t">>)]>>,
      <<[k |-> <<"D","E","V","E","L","O","P","M","E","N","T">>, v |-> Map(<<[k |-> <<"X">>, v |-> Str(<<"1">>)]>>)], [k |-> <<"p","r","o","d">>, v |-> Map(<<[k |-> <<"i","n","p","o","r","t">>, v |-> Str(<<"b","a","s","e">>)], [k |-> <<"X">>, v |-> Str(<<"2">>)]>>)], [k |-> <<"b","a","s","e">>, v |-> Map(<<[k |-> <<"X">>, v |-> Str(<<"0">>)], [k |-> <<"W">>, v |-> Str(<<"$","{","X","}">>)], [k |-> <<"L","O","G","_","P","A","T","H">>, v |-> Str(<<".","/","l">>)]>>)], [k |-> <<"C","O","M","M","O","N","_","T","A","S","K","S">>, v |-> Map(<<[k |-> <<"w","e","b","a","p","p">>, v |-> Map(<<[k |-> <<"X">>, v |-> Str(<<"9">>)]>>)], [k |-> <<"w","o","r","k","e","r">>, v |-> Map(<<[k |-> <<"W">>, v |-> Str(<<"w">>)]>>)]>>)]>>,
      <<[k |-> <<"p","r","o","d">>, v |-> Map(<<[k |-> <<"i","n","p","o","r","t">>, v |-> Str(<<"n","o","n","e">>)], [k |-> <<"X">>, v |-> Str(<<"2">>)]>>)], [k |-> <<"D","E","V","E","L","O","P","M","E","N","T">>, v |-> Map(<<[k |-> <<"i","n","p","o","r","t">>, v |-> Str(<<"C","O","M","M","O","N","_","T","A","S","K","S">>)], [k |-> <<"Y">>, v |-> Num(5)]>>)], [k |-> <<"C","O","M","M","O","N","_","T","A","S","K","S">>, v |-> Map(<<[k |-> <<"w","e","b","a","p","p">>, v |-> Map(<<[k |-> <<"Y">>, v |-> Str(<<"6">>)]>>)], [k |-> <<"w","o","r","k","e","r">>, v |-> Map(<<[k |-> <<"X">>, v |-> Str(<<"3">>)]>>)]>>)]>>,
      <<[k |-> <<"p","r","o","d">>, v |-> Map(<<[k |-> <<"i","n","p","o","r","t">>, v |-> List(<<Str(<<"a">>)>>)]>>)], [k |-> <<"D","E","V","E","L","O","P","M","E","N","T">>, v |-> Map(<<[k |-> <<"i","n","p","o","r","t">>, v |-> Str(<<"X">>)]>>)], [k |-> <<"X">>, v |-> Str(<<"1">>)]>> }
YamlFiles == {Absent, IsDir, Denied, Malformed, File("ok", List(<<>>))}
             \cup {Doc(d) : d \in YamlDocs}
JsonFiles == {Absent, IsDir, Denied, Malformed, File("ok", List(<<>>))}
             \cup {Doc(d) : d \in JsonDocs}

\* what the Config object holds before the load: nothing, or defaults
ConfigDefaults ==
    { <<>>,
      <<[k |-> <<"D","E","B","U","G">>, v |-> Bool(FALSE)], [k |-> <<"K","E","E","P">>, v |-> Str(<<"$","{","Z","}">>)], [k |-> <<"Z">>, v |-> Str(<<"o","l","d">>)]>> }

\* os.environ under env_name and task_name: unset, or a label
Environs ==
    { [env |-> None, task |-> None],
      [env |-> Str(<<"p","r","o","d">>), task |-> Str(<<"w","o","r","k","e","r">>)] }

LoadInit ==
    /\ config \in ConfigDefaults
    /\ pre = config
    /\ os_environ \in Environs
    /\ op = "none"
    /\ pc = "idle"
    /\ files = SingleFile(Absent)
    /\ silent = FALSE
    /\ c = None
    /\ task_section = None
    /\ ti = 0
    /\ tprev = None
    /\ hist = <<>>
    /\ ret = "None"
    /\ exc = "none"

\* no load is modelled
LoadIdle ==
    /\ config = <<>>
    /\ pre = <<>>
    /\ os_environ = [env |-> None, task |-> None]
    /\ op = "none"
    /\ pc = "off"
    /\ files = SingleFile(Absent)
    /\ silent = FALSE
    /\ c = None
    /\ task_section = None
    /\ ti = 0
    /\ tprev = None
    /\ hist = <<>>
    /\ ret = "None"
    /\ exc = "none"

env_label  == environ_get(os_environ.env, DEVELOPMENT)
task_label == environ_get(os_environ.task, webapp)

(***************************************************************************)
(* Config.from_folder                                                      *)
(***************************************************************************)
\* the call raised e
Fail(e) == pc' = "failed" /\ exc' = e

FromFolder ==
    /\ pc = "idle"
    /\ \E fs \in FolderFiles : files' = fs
    /\ op' = "from_folder"
    /\ pc' = "master"
    /\ pre' = config
    /\ UNCHANGED <<config, os_environ, silent, c, task_section, ti, tprev, hist, ret, exc>>
    /\ UNCHANGED <<mergeVars, yamlVars>>

LoadMaster ==
    /\ pc = "master"
    /\ LET r == load_master(files)
       IN  IF r.err # "none"
           THEN Fail(r.err) /\ UNCHANGED <<c, hist>>
           ELSE /\ c' = r.val
                /\ hist' = Append(hist, "load master")
                /\ pc' = "logging"
                /\ UNCHANGED exc
    /\ UNCHANGED <<config, pre, os_environ, op, files, silent, task_section, ti, tprev, ret>>
    /\ UNCHANGED <<mergeVars, yamlVars>>

LoadLogging ==
    /\ pc = "logging"
    /\ LET r == load_logging(c, files)
       IN  IF r.err # "none"
           THEN Fail(r.err) /\ UNCHANGED c
           ELSE c' = r.val /\ pc' = "host" /\ UNCHANGED exc
    /\ UNCHANGED <<config, pre, os_environ, op, files, silent, task_section, ti, tprev, hist, ret>>
    /\ UNCHANGED <<mergeVars, yamlVars>>

ApplyHost ==
    /\ pc = "host"
    /\ LET r == apply_host(c, files)
       IN  /\ c' = r.val
           /\ hist' = IF files.host.st = "absent" THEN hist
                      ELSE Append(hist, "host overlay")
           /\ IF r.err # "none" THEN Fail(r.err) ELSE pc' = "environ" /\ UNCHANGED exc
    /\ UNCHANGED <<config, pre, os_environ, op, files, silent, task_section, ti, tprev, ret>>
    /\ UNCHANGED <<mergeVars, yamlVars>>

InjectEnviron ==
    /\ pc = "environ"
    /\ LET r == config_inject(c, files.environ, env_label, kENV)
       IN  /\ c' = r.val
           /\ hist' = Append(hist, "environment overlay")
           /\ IF r.err # "none" THEN Fail(r.err) ELSE pc' = "tasks" /\ UNCHANGED exc
    /\ UNCHANGED <<config, pre, os_environ, op, files, silent, task_section, ti, tprev, ret>>
    /\ UNCHANGED <<mergeVars, yamlVars>>

\* the second _config_inject, then "return self._modify( result )"
InjectTasks ==
    /\ pc = "tasks"
    /\ LET r == config_inject(c, files.tasks, task_label, kTASK)
       IN  /\ c' = r.val
           /\ hist' = Append(hist, "task overlay")
           /\ IF r.err # "none" THEN Fail(r.err) ELSE pc' = "modify" /\ UNCHANGED exc
    /\ UNCHANGED <<config, pre, os_environ, op, files, silent, task_section, ti, tprev, ret>>
    /\ UNCHANGED <<mergeVars, yamlVars>>

(***************************************************************************)
(* Config.from_yaml, Config.from_json                                      *)
(***************************************************************************)
\* lines 244-245: self[ 'ENVIRONMENT' ] = env.lower()
FromYaml ==
    /\ pc = "idle"
    /\ \E f \in YamlFiles : files' = SingleFile(f)
    /\ silent' \in BOOLEAN
    /\ op' = "from_yaml"
    /\ pre' = config
    /\ config' = Put(config, kENVIRONMENT, Str(ToLower(ToUpper(env_label))))
    /\ pc' = "open"
    /\ UNCHANGED <<os_environ, c, task_section, ti, tprev, hist, ret, exc>>
    /\ UNCHANGED <<mergeVars, yamlVars>>

\* lines 273-274
FromJson ==
    /\ pc = "idle"
    /\ \E f \in JsonFiles : files' = SingleFile(f)
    /\ silent' \in BOOLEAN
    /\ op' = "from_json"
    /\ pre' = config
    /\ config' = Put(config, kENVIRONMENT, Str(ToLower(env_label)))
    /\ pc' = "open"
    /\ UNCHANGED <<os_environ, c, task_section, ti, tprev, hist, ret, exc>>
    /\ UNCHANGED <<mergeVars, yamlVars>>

\* the arguments of _modify, from the document read
load_arguments(doc) ==
    IF op = "from_yaml" THEN yaml_arguments(doc, ToUpper(env_label), task_label)
    ELSE json_arguments(doc, env_label, task_label)

\* open and parse the file, then "return self._modify( ..., task_section )"
OpenFile ==
    /\ pc = "open"
    /\ LET f == files.master
           args == load_arguments(f.doc)
       IN  IF f.st \in {"absent", "isdir"} /\ silent
           THEN /\ ret' = "False"
                /\ pc' = "returned"
                /\ UNCHANGED <<c, task_section, hist, exc>>
           ELSE IF f.st \in {"absent", "isdir", "denied"}
           THEN Fail("IOError") /\ UNCHANGED <<c, task_section, hist, ret>>
           ELSE IF f.st = "bad"
           THEN Fail("ParseError") /\ UNCHANGED <<c, task_section, hist, ret>>
           ELSE IF args.err # "none"
           THEN Fail(args.err) /\ UNCHANGED <<c, task_section, hist, ret>>
           ELSE /\ c' = args.c
                /\ task_section' = args.task_section
                /\ hist' = Append(hist, "load master")
                /\ pc' = "modify"
                /\ UNCHANGED <<ret, exc>>
    /\ UNCHANGED <<config, pre, os_environ, op, files, silent, ti, tprev>>
    /\ UNCHANGED <<mergeVars, yamlVars>>

(***************************************************************************)
(* Config._modify                                                          *)
(***************************************************************************)
\* line 337: if isinstance( task_section, dict )
ModifyBegin ==
    /\ pc = "modify"
    /\ IF IsDict(task_section)
       THEN /\ pc' = "task_items"
            /\ ti' = 1
            /\ hist' = Append(hist, "task section")
       ELSE /\ pc' = "keys"
            /\ UNCHANGED <<ti, hist>>
    /\ UNCHANGED <<config, pre, os_environ, op, files, silent, c, task_section, tprev, ret, exc>>
    /\ UNCHANGED <<mergeVars, yamlVars>>

\* resolve_key( c, task_section ): one item of task_section.items()
\* The task section is taken as an object apart from c: a dotted key that
\* writes into the very mapping being iterated (from_yaml passes a section
\* that lives inside the loaded document) is not among the inputs.
TaskItem ==
    /\ pc = "task_items"
    /\ ti <= Len(task_section.m)
    /\ LET r == resolve_key_item(RootFrame(c), task_section.m[ti].k,
                                 task_section.m[ti].v)
       IN  /\ c' = r.val.root
           /\ tprev' = c
           /\ ti' = ti + 1
           /\ IF r.err # "none" THEN Fail(r.err) ELSE UNCHANGED <<pc, exc>>
    /\ UNCHANGED <<config, pre, os_environ, op, files, silent, task_section, hist, ret>>
    /\ UNCHANGED <<mergeVars, yamlVars>>

TaskDone ==
    /\ pc = "task_items"
    /\ ti > Len(task_section.m)
    /\ pc' = "keys"
    /\ UNCHANGED <<config, pre, os_environ, op, files, silent, c, task_section, ti,
                   tprev, hist, ret, exc>>
    /\ UNCHANGED <<mergeVars, yamlVars>>

\* lines 373-400: for key in c.keys()
ModifyKeys ==
    /\ pc = "keys"
    /\ LET r == modify_loop(config, c)
       IN  /\ config' = r.val
           /\ hist' = Append(hist, "normalize")
           /\ IF r.err # "none" THEN Fail(r.err) ELSE pc' = "resolve" /\ UNCHANGED exc
    /\ UNCHANGED <<pre, os_environ, op, files, silent, c, task_section, ti, tprev, ret>>
    /\ UNCHANGED <<mergeVars, yamlVars>>

\* line 402: self._resolve_variables( self )
ResolveVariables ==
    /\ pc = "resolve"
    /\ LET r == resolve_variables(config)
       IN  /\ config' = r.val
           /\ hist' = Append(hist, "resolve")
           /\ IF r.err # "none" THEN Fail(r.err) ELSE pc' = "database" /\ UNCHANGED exc
    /\ UNCHANGED <<pre, os_environ, op, files, silent, c, task_section, ti, tprev, ret>>
    /\ UNCHANGED <<mergeVars, yamlVars>>

\* lines 403-407: the database URI; dump() changes nothing; return True
Database ==
    /\ pc = "database"
    /\ LET r == modify_database(config)
       IN  /\ config' = r.val
           /\ hist' = Append(hist, "database uri")
           /\ IF r.err # "none"
              THEN Fail(r.err) /\ UNCHANGED ret
              ELSE pc' = "done" /\ ret' = "True" /\ UNCHANGED exc
    /\ UNCHANGED <<pre, os_environ, op, files, silent, c, task_section, ti, tprev>>
    /\ UNCHANGED <<mergeVars, yamlVars>>

ModifySteps ==
    \/ ModifyBegin
    \/ TaskItem
    \/ TaskDone
    \/ ModifyKeys
    \/ ResolveVariables
    \/ Database

(***************************************************************************)
(* The loads as functions of their inputs: what a whole call leaves in the *)
(* Config object, and how it ends                                          *)
(***************************************************************************)
Outcome(e, r, self) == [err |-> e, ret |-> r, config |-> self]

\* _modify( c, task_section )
modify(self, doc, section) ==
    LET t == IF IsDict(section) THEN resolve_key(doc, section.m) ELSE Ok(doc)
        k == modify_loop(self, t.val)
        r == resolve_variables(k.val)
        d == modify_database(r.val)
    IN  IF t.err # "none" THEN Outcome(t.err, "None", self)
        ELSE IF k.err # "none" THEN Outcome(k.err, "None", k.val)
        ELSE IF r.err # "none" THEN Outcome(r.err, "None", r.val)
        ELSE IF d.err # "none" THEN Outcome(d.err, "None", d.val)
        ELSE Outcome("none", "True", d.val)

\* from_folder, with the labels read from os.environ
from_folder(self, fs, env, task) ==
    LET m == load_master(fs)
        l == load_logging(m.val, fs)
        h == apply_host(l.val, fs)
        e == config_inject(h.val, fs.environ, env, kENV)
        k == config_inject(e.val, fs.tasks, task, kTASK)
    IN  IF m.err # "none" THEN Outcome(m.err, "None", self)
        ELSE IF l.err # "none" THEN Outcome(l.err, "None", self)
        ELSE IF h.err # "none" THEN Outcome(h.err, "None", self)
        ELSE IF e.err # "none" THEN Outcome(e.err, "None", self)
        ELSE IF k.err # "none" THEN Outcome(k.err, "None", self)
        ELSE modify(self, k.val, None)

\* from_yaml / from_json of the file f
from_file(method, self, f, quiet, env, task) ==
    LET named == Put(self, kENVIRONMENT,
                     Str(ToLower(IF method = "from_yaml" THEN ToUpper(env) ELSE env)))
        args == IF method = "from_yaml" THEN yaml_arguments(f.doc, ToUpper(env), task)
                ELSE json_arguments(f.doc, env, task)
    IN  IF f.st \in {"absent", "isdir"} /\ quiet THEN Outcome("none", "False", named)
        ELSE IF f.st \in {"absent", "isdir", "denied"} THEN Outcome("IOError", "None", named)
        ELSE IF f.st = "bad" THEN Outcome("ParseError", "None", named)
        ELSE IF args.err # "none" THEN Outcome(args.err, "None", named)
        ELSE modify(named, args.c, args.task_section)

\* the call of the method on the Config object holding self
Load(method, self, fs, quiet, env, task) ==
    IF method = "from_folder" THEN from_folder(self, fs, env, task)
    ELSE from_file(method, self, fs.master, quiet, env, task)

Ended == pc \in {"done", "failed", "returned"}

\* The steps of a call compose to the call: a call that has ended left what
\* Load computes from its inputs.
StepsComposeToLoad ==
    Ended => Load(op, pre, files, silent, env_label, task_label)
                = Outcome(exc, ret, config)

(***************************************************************************)
(* Direct calls of Config._modify( c, task_section )                       *)
(***************************************************************************)
\* documents passed as c: reference chains in every key order, nested
\* mappings, every value shape under a PATH key, a duration key and another key
ModifyDocs ==
    { <<[k |-> <<"X">>, v |-> Str(<<"$","{","Y","}">>)], [k |-> <<"Y">>, v |-> Str(<<"$","{","Z","}">>)], [k |-> <<"Z">>, v |-> Str(<<"d","o","n","e">>)]>>,
      <<[k |-> <<"X">>, v |-> Str(<<"$","{","Y","}">>)], [k |-> <<"Z">>, v |-> Str(<<"d","o","n","e">>)], [k |-> <<"Y">>, v |-> Str(<<"$","{","Z","}">>)]>>,
      <<[k |-> <<"Y">>, v |-> Str(<<"$","{","Z","}">>)], [k |-> <<"X">>, v |-> Str(<<"$","{","Y","}">>)], [k |-> <<"Z">>, v |-> Str(<<"d","o","n","e">>)]>>,
      <<[k |-> <<"Y">>, v |-> Str(<<"$","{","Z","}">>)], [k |-> <<"Z">>, v |-> Str(<<"d","o","n","e">>)], [k |-> <<"X">>, v |-> Str(<<"$","{","Y","}">>)]>>,
      <<[k |-> <<"Z">>, v |-> Str(<<"d","o","n","e">>)], [k |-> <<"X">>, v |-> Str(<<"$","{","Y","}">>)], [k |-> <<"Y">>, v |-> Str(<<"$","{","Z","}">>)]>>,
      <<[k |-> <<"Z">>, v |-> Str(<<"d","o","n","e">>)], [k |-> <<"Y">>, v |-> Str(<<"$","{","Z","}">>)], [k |-> <<"X">>, v |-> Str(<<"$","{","Y","}">>)]>>,
      <<[k |-> <<"W">>, v |-> Str(<<"w">>)], [k |-> <<"X">>, v |-> Str(<<"$","{","Y","}">>)], [k |-> <<"V">>, v |-> Map(<<[k |-> <<"N">>, v |-> Str(<<"$","{","X","}">>)]>>)], [k |-> <<"Y">>, v |-> Str(<<"$","{","Z","}">>)], [k |-> <<"Z">>, v |-> Str(<<"d","o","n","e">>)]>>,
      <<[k |-> <<"Y">>, v |-> Str(<<"$","{","Z","}">>)], [k |-> <<"W">>, v |-> Str(<<"w">>)], [k |-> <<"Z">>, v |-> Str(<<"d","o","n","e">>)], [k |-> <<"X">>, v |-> Str(<<"$","{","Y","}">>)]>>,
      <<[k |-> <<"A">>, v |-> Map(<<[k |-> <<"B">>, v |-> Map(<<[k |-> <<"C">>, v |-> Num(1)], [k |-> <<"D">>, v |-> Num(2)]>>)]>>)], [k |-> <<"E">>, v |-> Str(<<"x">>)]>>,
      <<[k |-> <<"A">>, v |-> Map(<<[k |-> <<"B">>, v |-> Map(<<[k |-> <<"C">>, v |-> Num(1)], [k |-> <<"D">>, v |-> Num(2)]>>)], [k |-> <<"F">>, v |-> Map(<<[k |-> <<"C">>, v |-> Num(3)]>>)]>>)], [k |-> <<"B">>, v |-> Map(<<[k |-> <<"C">>, v |-> Num(4)]>>)], [k |-> <<"E">>, v |-> Str(<<"x">>)]>>,
      <<[k |-> <<"A">>, v |-> Str(<<"f","l","a","t">>)], [k |-> <<"E">>, v |-> Map(<<[k |-> <<"A">>, v |-> Map(<<[k |-> <<"B">>, v |-> Num(1)]>>)]>>)]>>,
      <<[k |-> <<"L","O","G","_","P","A","T","H">>, v |-> Str(<<".","/","l","o","g","s">>)]>>,
      <<[k |-> <<"L","O","G","_","P","A","T","H">>, v |-> Str(<<"/","a","b","s","/","l","o","g","s">>)]>>,
      <<[k |-> <<"L","O","G","_","P","A","T","H">>, v |-> Num(5)]>>,
      <<[k |-> <<"L","O","G","_","P","A","T","H">>, v |-> Bool(TRUE)]>>,
      <<[k |-> <<"L","O","G","_","P","A","T","H">>, v |-> None]>>,
      <<[k |-> <<"L","O","G","_","P","A","T","H">>, v |-> Map(<<[k |-> <<"a">>, v |-> Str(<<".","/","l">>)]>>)]>>,
      <<[k |-> <<"L","O","G","_","P","A","T","H">>, v |-> List(<<Str(<<".","/","l">>)>>)]>>,
      <<[k |-> <<"P","E","R","M","A","N","E","N","T","_","S","E","S","S","I","O","N","_","L","I","F","E","T","I","M","E">>, v |-> Str(<<"d","a","y","s","=","1",",","h","o","u","r","s","=","2">>)]>>,
      <<[k |-> <<"P","E","R","M","A","N","E","N","T","_","S","E","S","S","I","O","N","_","L","I","F","E","T","I","M","E">>, v |-> Str(<<"3","6","0","0">>)]>>,
      <<[k |-> <<"P","E","R","M","A","N","E","N","T","_","S","E","S","S","I","O","N","_","L","I","F","E","T","I","M","E">>, v |-> Num(3600)]>>,
      <<[k |-> <<"P","E","R","M","A","N","E","N","T","_","S","E","S","S","I","O","N","_","L","I","F","E","T","I","M","E">>, v |-> Bool(FALSE)]>>,
      <<[k |-> <<"P","E","R","M","A","N","E","N","T","_","S","E","S","S","I","O","N","_","L","I","F","E","T","I","M","E">>, v |-> None]>>,
      <<[k |-> <<"P","E","R","M","A","N","E","N","T","_","S","E","S","S","I","O","N","_","L","I","F","E","T","I","M","E">>, v |-> List(<<Str(<<"=">>)>>)]>>,
      <<[k |-> <<"P","E","R","M","A","N","E","N","T","_","S","E","S","S","I","O","N","_","L","I","F","E","T","I","M","E">>, v |-> Map(<<[k |-> <<"=">>, v |-> Num(1)]>>)]>>,
      <<[k |-> <<"P","E","R","M","A","N","E","N","T","_","S","E","S","S","I","O","N","_","L","I","F","E","T","I","M","E">>, v |-> List(<<Str(<<"x">>)>>)]>>,
      <<[k |-> <<"P","E","R","M","A","N","E","N","T","_","S","E","S","S","I","O","N","_","L","I","F","E","T","I","M","E">>, v |-> Str(<<"m","i","n","u","t","e","s","=","x">>)]>>,
      <<[k |-> <<"P","E","R","M","A","N","E","N","T","_","S","E","S","S","I","O","N","_","L","I","F","E","T","I","M","E">>, v |-> Str(<<"d","a","y","s","=","1","=","2">>)]>>,
      <<[k |-> <<"J","W","T","_","A","C","C","E","S","S","_","T","O","K","E","N","_","E","X","P","I","R","E","S">>, v |-> Str(<<"m","i","n","u","t","e","s","=","1","5",",","s","e","c","o","n","d","s","=","3","0">>)], [k |-> <<"S","E","N","D","_","F","I","L","E","_","M","A","X","_","A","G","E","_","D","E","F","A","U","L","T">>, v |-> Num(0)], [k |-> <<"J","W","T","_","R","E","F","R","E","S","H","_","T","O","K","E","N","_","E","X","P","I","R","E","S">>, v |-> Str(<<"w","e","e","k","s","=","1">>)]>>,
      <<[k |-> <<"O","T","H","E","R">>, v |-> Str(<<"t","e","x","t">>)], [k |-> <<"l","o","w","e","r">>, v |-> Str(<<"t","e","x","t">>)]>>,
      <<[k |-> <<"O","T","H","E","R">>, v |-> Num(7)], [k |-> <<"l","o","w","e","r">>, v |-> Num(7)]>>,
      <<[k |-> <<"O","T","H","E","R">>, v |-> Bool(TRUE)], [k |-> <<"l","o","w","e","r">>, v |-> Bool(TRUE)]>>,
      <<[k |-> <<"O","T","H","E","R">>, v |-> None], [k |-> <<"l","o","w","e","r">>, v |-> None]>>,
      <<[k |-> <<"O","T","H","E","R">>, v |-> Map(<<[k |-> <<"k">>, v |-> Str(<<"v">>)]>>)], [k |-> <<"l","o","w","e","r">>, v |-> Map(<<[k |-> <<"k">>, v |-> Str(<<"v">>)]>>)]>>,
      <<[k |-> <<"O","T","H","E","R">>, v |-> List(<<Num(1), Str(<<"a">>)>>)], [k |-> <<"l","o","w","e","r">>, v |-> List(<<Num(1), Str(<<"a">>)>>)]>>,
      <<[k |-> <<"D","A","T","A","B","A","S","E">>, v |-> Map(<<[k |-> <<"E","N","G","I","N","E">>, v |-> Str(<<"s","q","l","i","t","e">>)], [k |-> <<"D","A","T","A","B","A","S","E">>, v |-> Str(<<"a","p","p",".","d","b">>)]>>)]>>,
      <<[k |-> <<"D","A","T","A","B","A","S","E">>, v |-> Map(<<[k |-> <<"E","N","G","I","N","E">>, v |-> Str(<<"m","y","s","q","l">>)], [k |-> <<"D","A","T","A","B","A","S","E">>, v |-> Str(<<"d">>)], [k |-> <<"H","O","S","T">>, v |-> Str(<<"h">>)]>>)]>>,
      <<>> }
\* task sections: plain keys, dotted keys whose segments exist or not,
\* mappings, dotted keys inside mappings
TaskSections ==
    { <<>>,
      <<[k |-> <<"A",".","B",".","C">>, v |-> Num(5)]>>,
      <<[k |-> <<"A",".","B">>, v |-> Num(7)]>>,
      <<[k |-> <<"A",".","X">>, v |-> Num(1)]>>,
      <<[k |-> <<"A",".","B",".","C",".","Q">>, v |-> Num(1)]>>,
      <<[k |-> <<"A",".","M",".","C">>, v |-> Num(1)]>>,
      <<[k |-> <<"E">>, v |-> Str(<<"y">>)]>>,
      <<[k |-> <<"A">>, v |-> Map(<<[k |-> <<"B">>, v |-> Map(<<[k |-> <<"A",".","B">>, v |-> Num(5)], [k |-> <<"Z">>, v |-> Num(1)]>>)]>>)]>>,
      <<[k |-> <<"A",".","B",".","C">>, v |-> Num(5)], [k |-> <<"A",".","B",".","D">>, v |-> Map(<<[k |-> <<"K">>, v |-> Num(1)]>>)]>>,
      <<[k |-> <<"A">>, v |-> Map(<<[k |-> <<"N">>, v |-> Num(1)]>>)], [k |-> <<"A",".","B",".","C">>, v |-> Num(9)]>>,
      <<[k |-> <<"A",".","B",".","C">>, v |-> Map(<<[k |-> <<"K">>, v |-> Num(2)]>>)]>>,
      <<[k |-> <<"A",".","F",".","C">>, v |-> Num(8)], [k |-> <<"B",".","C">>, v |-> List(<<Num(1)>>)]>>,
      <<[k |-> <<"Z">>, v |-> Str(<<"l","a","t","e">>)]>>,
      <<[k |-> <<"A",".",".","C">>, v |-> Num(1)]>>,
      <<[k |-> <<"E",".","A",".","B">>, v |-> Num(2)], [k |-> <<"E",".","A">>, v |-> Num(3)]>> }

ModifyInit ==
    /\ config \in ConfigDefaults
    /\ pre = config
    /\ os_environ = [env |-> None, task |-> None]
    /\ op = "none"
    /\ pc = "call"
    /\ files = SingleFile(Absent)
    /\ silent = FALSE
    /\ c = None
    /\ task_section = None
    /\ ti = 0
    /\ tprev = None
    /\ hist = <<>>
    /\ ret = "None"
    /\ exc = "none"

\* self._modify( c, task_section ); task_section defaults to None
ModifyCall ==
    /\ pc = "call"
    /\ \E doc \in ModifyDocs, section \in {None} \cup {Map(s) : s \in TaskSections} :
          /\ c' = Map(doc)
          /\ task_section' = section
    /\ op' = "_modify"
    /\ pc' = "modify"
    /\ UNCHANGED <<config, pre, os_environ, files, silent, ti, tprev, hist, ret, exc>>
    /\ UNCHANGED <<mergeVars, yamlVars>>

(***************************************************************************)
(* yaml_load: my_safe_load and the !include constructor                    *)
(*                                                                         *)
(* A document is the sequence of its events that touch the anchor table    *)
(* or start a load: an anchored node, an alias, an !include node.  A       *)
(* loader composes its whole document (get_single_node) before it          *)
(* constructs any of it (construct_document), so every anchor of a         *)
(* document is in the table before the first !include of it is loaded.     *)
(***************************************************************************)
Anchor(n)  == [e |-> "anchor", n |-> n]
Alias(n)   == [e |-> "alias", n |-> n]
Include(n) == [e |-> "include", n |-> n]

\* the files by name; an !include names a file
YamlSources ==
    ( "root.yaml"   :> <<Anchor("base"), Include("mid.yaml"), Anchor("late")>> ) @@
    ( "mid.yaml"    :> <<Alias("base"), Anchor("m"), Include("leaf.yaml"), Alias("late")>> ) @@
    ( "leaf.yaml"   :> <<Alias("base"), Alias("m"), Anchor("l")>> ) @@
    ( "alone.yaml"  :> <<Alias("base")>> ) @@
    ( "plain.yaml"  :> <<Anchor("base"), Alias("base")>> ) @@
    ( "twice.yaml"  :> <<Include("plain.yaml"), Include("plain.yaml")>> ) @@
    ( "sib.yaml"    :> <<Include("plain.yaml"), Include("alone.yaml")>> ) @@
    ( "lost.yaml"   :> <<Anchor("a"), Include("nofile.yaml")>> )

\* the files a top-level load is called on
TopFiles == DOMAIN YamlSources

\* master = None
NoMaster == [file |-> "", anchors |-> 0, phase |-> "none", pos |-> 0]

\* a new dict
NewTable(load) == [names |-> {}, load |-> load]

RECURSIVE compose_node(_, _, _)
\* Composer.compose_node over the events from the i-th on, with the names
\* in the loader's anchor table: an alias must be in the table, an anchor
\* must not be; my_compose_document keeps the table afterwards (line 14)
compose_node(events, i, names) ==
    IF i > Len(events) THEN Ok(names)
    ELSE IF events[i].e = "alias"
    THEN IF events[i].n \in names THEN compose_node(events, i + 1, names)
         ELSE Raise("ComposerError", names)
    ELSE IF events[i].e = "anchor"
    THEN IF events[i].n \in names THEN Raise("ComposerError", names)
         ELSE compose_node(events, i + 1, names \cup {events[i].n})
    ELSE compose_node(events, i + 1, names)

my_compose_document(events, names) == compose_node(events, 1, names)

\* my_safe_load that leaves the loader its own new table
my_safe_load_own_table(tabs, load, f, master) ==
    [tables |-> Append(tabs, NewTable(load)),
     loader |-> [file |-> f, anchors |-> Len(tabs) + 1, phase |-> "compose", pos |-> 1]]

\* loader = Loader( stream ) gives the loader a new table; with a master
\* the loader's anchors attribute is then bound to the master's table.
\* tabs: the tables so far; the loader's 'anchors' is the index of its table
my_safe_load(tabs, load, f, master) ==
    [tables |-> Append(tabs, NewTable(load)),
     loader |-> [file    |-> f,
                 anchors |-> IF master = NoMaster THEN Len(tabs) + 1
                             ELSE master.anchors,
                 phase   |-> "compose",
                 pos     |-> 1]]

\* the position of the next !include node of the loader's document, or 0
NextInclude(ld) ==
    LET doc  == YamlSources[ld.file]
        rest == {j \in ld.pos..Len(doc) : doc[j].e = "include"}
    IN  IF rest = {} THEN 0 ELSE CHOOSE j \in rest : \A k \in rest : j <= k

Top == loaders[Len(loaders)]

(***************************************************************************)
(* Loads of YAML files                                                     *)
(***************************************************************************)
\* the most top-level loads in a behaviour
MaxLoads == 2

YamlInit ==
    /\ tables = <<>>
    /\ loaders = <<>>
    /\ nloads = 0
    /\ lres = "none"

\* no YAML load is modelled
YamlIdle ==
    /\ tables = <<>>
    /\ loaders = <<>>
    /\ nloads = 0
    /\ lres = "off"

\* my_safe_load( stream ) called from outside any load
TopLoad ==
    /\ loaders = <<>>
    /\ nloads < MaxLoads
    /\ \E f \in TopFiles :
          LET r == my_safe_load(tables, nloads + 1, f, NoMaster)
          IN  /\ tables' = r.tables
              /\ loaders' = <<r.loader>>
    /\ nloads' = nloads + 1
    /\ lres' = "running"
    /\ UNCHANGED <<mergeVars, loadVars>>

\* get_single_node(): the innermost loader composes its document; an
\* error leaves every active call (finally: loader.dispose())
Compose ==
    /\ loaders # <<>>
    /\ Top.phase = "compose"
    /\ LET r == my_compose_document(YamlSources[Top.file], tables[Top.anchors].names)
       IN  /\ tables' = [tables EXCEPT ![Top.anchors].names = r.val]
           /\ IF r.err # "none"
              THEN loaders' = <<>> /\ lres' = r.err
              ELSE /\ loaders' = [loaders EXCEPT ![Len(loaders)].phase = "construct"]
                   /\ UNCHANGED lres
    /\ UNCHANGED nloads
    /\ UNCHANGED <<mergeVars, loadVars>>

\* construct_document() reaches an !include node: yaml_include( loader, node )
YamlInclude ==
    /\ loaders # <<>>
    /\ Top.phase = "construct"
    /\ NextInclude(Top) # 0
    /\ LET at == NextInclude(Top)
           f  == YamlSources[Top.file][at].n
           r  == my_safe_load(tables, nloads, f, Top)
       IN  IF f \notin DOMAIN YamlSources
           THEN /\ loaders' = <<>>
                /\ lres' = "IOError"
                /\ UNCHANGED tables
           ELSE /\ tables' = r.tables
                /\ loaders' = Append([loaders EXCEPT ![Len(loaders)].pos = at], r.loader)
                /\ UNCHANGED lres
    /\ UNCHANGED nloads
    /\ UNCHANGED <<mergeVars, loadVars>>

\* the innermost loader has constructed its document: my_safe_load returns
YamlReturn ==
    /\ loaders # <<>>
    /\ Top.phase = "construct"
    /\ NextInclude(Top) = 0
    /\ loaders' = [i \in 1..(Len(loaders) - 1) |->
                     IF i = Len(loaders) - 1
                     THEN [loaders[i] EXCEPT !.pos = @ + 1]
                     ELSE loaders[i]]
    /\ lres' = IF Len(loaders) = 1 THEN "ok" ELSE lres
    /\ UNCHANGED <<tables, nloads>>
    /\ UNCHANGED <<mergeVars, loadVars>>

(***************************************************************************)
(* Specifications                                                          *)
(***************************************************************************)
\* direct calls of _config_over_ride
MergeNext == CallOverRide

InitMerge == MergeInit /\ LoadIdle /\ YamlIdle

SpecMerge == InitMerge /\ [][MergeNext]_vars

\* loads into a Config object: from_folder, from_yaml, from_json
Init == MergeIdle /\ LoadInit /\ YamlIdle

Next ==
    \/ FromFolder
    \/ LoadMaster
    \/ LoadLogging
    \/ ApplyHost
    \/ InjectEnviron
    \/ InjectTasks
    \/ FromYaml
    \/ FromJson
    \/ OpenFile
    \/ ModifySteps

Spec == Init /\ [][Next]_vars

\* direct calls of _modify
ModifyNext ==
    \/ ModifyCall
    \/ ModifySteps

InitModify == MergeIdle /\ ModifyInit /\ YamlIdle

SpecModify == InitModify /\ [][ModifyNext]_vars

\* loads of YAML files with !include
YamlNext ==
    \/ TopLoad
    \/ Compose
    \/ YamlInclude
    \/ YamlReturn

InitYaml == MergeIdle /\ LoadIdle /\ YamlInit

SpecYaml == InitYaml /\ [][YamlNext]_vars

(***************************************************************************)
(* Mappings compared by content, and a mapping's other key orders          *)
(***************************************************************************)
RECURSIVE SameValue(_, _)
\* equal up to the order of the keys of every dict
SameValue(a, b) ==
    IF IsDict(a) /\ IsDict(b)
    THEN /\ KeySet(a.m) = KeySet(b.m)
         /\ \A key \in KeySet(a.m) : SameValue(Get(a.m, key), Get(b.m, key))
    ELSE a = b

SameItems(a, b) == SameValue(Map(a), Map(b))

KeyOrders(n) == {f \in [1..n -> 1..n] : \A i, j \in 1..n : f[i] = f[j] => i = j}

RECURSIVE Reorderings(_)
RECURSIVE ReorderedItems(_, _)
\* the values that differ from v only in the order of the keys of its dicts
Reorderings(v) ==
    IF ~IsDict(v) THEN {v}
    ELSE {Map([i \in 1..Len(q) |-> q[f[i]]]) :
            q \in ReorderedItems(v.m, 1), f \in KeyOrders(Len(v.m))}

\* the items from the i-th on, each value in each of its key orders
ReorderedItems(m, i) ==
    IF i > Len(m) THEN {<<>>}
    ELSE {<<[k |-> m[i].k, v |-> w]>> \o rest :
            w \in Reorderings(m[i].v), rest \in ReorderedItems(m, i + 1)}

ReorderedFile(f) ==
    IF f.st = "ok" THEN {File("ok", d) : d \in Reorderings(f.doc)} ELSE {f}

\* the same files, their documents written with other key orders
ReorderedFiles(fs) ==
    [folder  : {fs.folder},
     master  : ReorderedFile(fs.master),
     logging : ReorderedFile(fs.logging),
     host    : ReorderedFile(fs.host),
     environ : ReorderedFile(fs.environ),
     tasks   : ReorderedFile(fs.tasks)]

(***************************************************************************)
(* Properties of _config_over_ride                                         *)
(***************************************************************************)
\* C1: when a key holds a non-mapping value in base and a mapping in overlay,
\* the merge completes without failure and base[key] is then the overlay's
\* mapping (overlay wins).
C1_MappingOverScalarOverlayWins ==
    mpc = "done" =>
        \A i \in 1..Len(override) :
            (/\ Has(result, override[i].k)
             /\ ~IsDict(Get(result, override[i].k))
             /\ IsDict(override[i].v))
            => /\ mret.err = "none"
               /\ Get(mret.val.m, override[i].k) = override[i].v

RECURSIVE MergedAs(_, _, _)
\* r is the merge of overlay o into base b: the union of the keys; a key of
\* b alone keeps b's value; a scalar or sequence of o replaces what b held;
\* two mappings merge recursively; a mapping of o absent from b is taken
\* over.  (A mapping of o over a scalar of b is left open here.)
MergedAs(r, b, o) ==
    /\ IsDict(r)
    /\ KeySet(r.m) = KeySet(b.m) \cup KeySet(o.m)
    /\ \A key \in KeySet(r.m) :
          IF ~Has(o.m, key) THEN Get(r.m, key) = Get(b.m, key)
          ELSE IF ~IsDict(Get(o.m, key)) THEN Get(r.m, key) = Get(o.m, key)
          ELSE IF ~Has(b.m, key) THEN Get(r.m, key) = Get(o.m, key)
          ELSE IF IsDict(Get(b.m, key))
          THEN MergedAs(Get(r.m, key), Get(b.m, key), Get(o.m, key))
          ELSE TRUE

\* C8: for every pair of mappings the merge returns a mapping whose key set
\* is the union of both key sets, with the per-key values of MergedAs.
C8_MergeResult ==
    mpc = "done" =>
        /\ mret.err = "none"
        /\ MergedAs(mret.val, Map(result), Map(override))

RECURSIVE TypeConflict(_, _)
\* some key, at some depth, holds a non-mapping in b and a non-empty change
\* for it as a mapping in o
TypeConflict(b, o) ==
    \E key \in KeySet(b.m) \cap KeySet(o.m) :
        /\ IsDict(Get(o.m, key))
        /\ IF IsDict(Get(b.m, key)) THEN TypeConflict(Get(b.m, key), Get(o.m, key))
           ELSE Get(o.m, key).m # <<>>

\* The merge raises exactly on a type conflict, and is MergedAs otherwise.
MergeUnlessTypeConflict ==
    mpc = "done" =>
        /\ (mret.err # "none") = TypeConflict(Map(result), Map(override))
        /\ mret.err = "none" => MergedAs(mret.val, Map(result), Map(override))

(***************************************************************************)
(* Properties of the loads                                                 *)
(***************************************************************************)
\* C2: for fixed tier documents and task overrides, the final configuration
\* is the same for every key iteration order of every input mapping: a load
\* of the same files written in another key order ends the same way and
\* leaves the same configuration.
C2_SameResultForEveryKeyOrder ==
    Ended =>
        \A fs \in ReorderedFiles(files) :
            LET o == Load(op, pre, fs, silent, env_label, task_label)
            IN  /\ (o.err = "none") = (exc = "none")
                /\ exc = "none" => SameItems(o.config, config)

\* C4: from_folder of a master document that parses to a mapping, with the
\* environ and tasks overlays missing (and no host overlay), returns True
\* and leaves every upper-case top-level value of the master document in
\* the configuration, unchanged.
C4_MissingOverlayIsNotFatal ==
    (/\ op = "from_folder"
     /\ Ended
     /\ files.folder
     /\ files.master.st = "ok"
     /\ IsDict(files.master.doc)
     /\ files.host.st = "absent"
     /\ files.environ.st \in {"nodir", "absent"}
     /\ files.tasks.st \in {"nodir", "absent"})
    => /\ pc = "done"
       /\ ret = "True"
       /\ \A i \in 1..Len(files.master.doc.m) :
             LET key == files.master.doc.m[i].k
             IN  IsUpper(key) =>
                    /\ Has(config, key)
                    /\ Get(config, key) = files.master.doc.m[i].v

\* C6: a completed from_folder run has executed, once each and in this
\* order: load master, (optionally) the host overlay, the environment
\* overlay, the task overlay, the task-section overrides, the normalization
\* of the upper-case keys, the variable resolution, the database URI.
C6_PipelineOrder ==
    (op = "from_folder" /\ pc = "done") =>
        hist = <<"load master">>
               \o (IF files.host.st = "absent" THEN <<>> ELSE <<"host overlay">>)
               \o <<"environment overlay", "task overlay", "task section",
                    "normalize", "resolve", "database uri">>

\* C7: a load that ends in an error, or returns False for a file that is
\* not there, leaves the Config object as it was before the call.
C7_NoPartialConfigOnFailure ==
    (pc = "failed" \/ (pc = "returned" /\ ret = "False")) => config = pre

(***************************************************************************)
(* Properties of _modify                                                   *)
(***************************************************************************)
\* X refers to Y, Y refers to Z, Z is plain text
IsChain(self) ==
    /\ {<<"X">>, <<"Y">>, <<"Z">>} \subseteq KeySet(self)
    /\ Get(self, <<"X">>) = Str(<<"$","{","Y","}">>)
    /\ Get(self, <<"Y">>) = Str(<<"$","{","Z","}">>)
    /\ IsStr(Get(self, <<"Z">>))
    /\ ~Contains(Get(self, <<"Z">>).s, <<"$","{">>)

\* C3: when X holds "${Y}", Y holds "${Z}" and Z holds plain text, wherever
\* the three keys sit in the mapping, one _resolve_variables pass leaves X
\* equal to the text "${Z}" (what Y held before the pass).
C3_NoRescan ==
    [][(pc = "resolve" /\ IsChain(config))
         => Get(config', <<"X">>) = Str(<<"$","{","Z","}">>)]_vars

\* The pass leaves X equal to "${Z}" when X comes before Y in the mapping.
NoRescanWhenXFirst ==
    [][(/\ pc = "resolve"
        /\ IsChain(config)
        /\ IndexOf(config, <<"X">>) < IndexOf(config, <<"Y">>))
         => Get(config', <<"X">>) = Str(<<"$","{","Z","}">>)]_vars

\* what the normalizer is to store for a key of c with this value
Normalized(key, value) ==
    IF Contains(key, <<"P","A","T","H">>) /\ IsStr(value) /\ StartsWith(value.s, <<".">>)
    THEN Str(AbsPath(PathJoin(root_path, value.s)))
    ELSE IF key \in delta_keys /\ IsStr(value) /\ Contains(value.s, <<"=">>)
    THEN timedelta(SettingsFrom(Split(value.s, ","), 1, <<>>).val).val
    ELSE value

\* every duration text with '=' is a list of name=number pairs of timedelta
DurationsWellFormed(doc) ==
    \A i \in 1..Len(doc.m) :
        (/\ doc.m[i].k \in delta_keys
         /\ IsStr(doc.m[i].v)
         /\ Contains(doc.m[i].v.s, <<"=">>))
        => LET st == SettingsFrom(Split(doc.m[i].v.s, ","), 1, <<>>)
           IN  st.err = "none" /\ timedelta(st.val).err = "none"

\* C5: for every upper-case key of c and every value shape, the loop over
\* c.keys() completes and has stored the absolute path (PATH key, string
\* starting with '.'), the duration (duration key, string with '=') or
\* else the value unchanged; it does not fail on a non-string value.
C5_NormalizerTotal ==
    [][(pc = "keys" /\ IsDict(c) /\ DurationsWellFormed(c))
         => /\ pc' = "resolve"
            /\ \A i \in 1..Len(c.m) :
                  IsUpper(c.m[i].k) =>
                     /\ Has(config', c.m[i].k)
                     /\ Get(config', c.m[i].k) = Normalized(c.m[i].k, c.m[i].v)]_vars

\* The same, for documents whose PATH keys and duration keys hold strings.
NormalizerOnStrings ==
    [][(/\ pc = "keys" /\ IsDict(c) /\ DurationsWellFormed(c)
        /\ \A i \in 1..Len(c.m) :
              (Contains(c.m[i].k, <<"P","A","T","H">>) \/ c.m[i].k \in delta_keys)
              => IsStr(c.m[i].v))
         => /\ pc' = "resolve"
            /\ \A i \in 1..Len(c.m) :
                  IsUpper(c.m[i].k) =>
                     /\ Has(config', c.m[i].k)
                     /\ Get(config', c.m[i].k) = Normalized(c.m[i].k, c.m[i].v)]_vars

RECURSIVE SegmentsAreMappings(_, _)
\* every segment of keys but the last names a mapping nested in v
SegmentsAreMappings(v, keys) ==
    /\ IsDict(v)
    /\ Len(keys) > 1 =>
          /\ Has(v.m, keys[1])
          /\ SegmentsAreMappings(Get(v.m, keys[1]), Tail(keys))

\* the keys of a mapping, in its order
KeysOf(m) == [i \in 1..Len(m) |-> m[i].k]

RECURSIVE OnlyPathDiffers(_, _, _, _)
\* new is old with val at the path keys: along the path the mappings keep
\* their keys, in their order, and every key off the path keeps its value;
\* the last mapping may have gained the last segment as a new key
OnlyPathDiffers(old, new, keys, val) ==
    /\ IsDict(new)
    /\ \A key \in KeySet(old.m) \ {keys[1]} : Get(new.m, key) = Get(old.m, key)
    /\ IF Len(keys) = 1
       THEN /\ Get(new.m, keys[1]) = val
            /\ KeysOf(new.m) = IF Has(old.m, keys[1]) THEN KeysOf(old.m)
                               ELSE Append(KeysOf(old.m), keys[1])
       ELSE /\ KeysOf(new.m) = KeysOf(old.m)
            /\ OnlyPathDiffers(Get(old.m, keys[1]), Get(new.m, keys[1]), Tail(keys), val)

\* the item of the task section applied last, and the segments of its key
LastItem     == task_section.m[ti - 1]
LastSegments == Split(LastItem.k, ".")

\* a dotted key of the task section was applied last, and every segment of
\* it but the last named a nested mapping of c
DottedKeyApplied ==
    /\ op = "_modify"
    /\ IsDict(task_section)
    /\ ti > 1
    /\ Contains(LastItem.k, <<".">>)
    /\ SegmentsAreMappings(tprev, LastSegments)

\* C9: a task-section key "s1.s2...sn" whose segments s1..s(n-1) are nested
\* mappings of c is applied without failure; afterwards the path s1/.../sn
\* holds the override value, every other key at every level holds what it
\* held, and no mapping was created on the way.
C9_DottedPathPrecision ==
    DottedKeyApplied =>
        /\ ~(pc = "failed" /\ hist[Len(hist)] = "task section")
        /\ SegmentsAreMappings(c, LastSegments)
        /\ LookupAt(c, LastSegments) = LastItem.v
        /\ OnlyPathDiffers(tprev, c, LastSegments, LastItem.v)

\* a key of three segments replaced a value two mappings down, next to a
\* sibling, after another item of the task section
C9_Witness ==
    /\ DottedKeyApplied
    /\ pc = "task_items"
    /\ Len(LastSegments) = 3
    /\ Len(LookupAt(tprev, SubSeq(LastSegments, 1, 2)).m) > 1
    /\ LookupAt(tprev, LastSegments) # LastItem.v
    /\ c # tprev

(***************************************************************************)
(* Properties of my_safe_load                                              *)
(***************************************************************************)
\* the anchors a document defines
AnchorsOf(f) == {YamlSources[f][i].n : i \in {j \in 1..Len(YamlSources[f]) :
                                                  YamlSources[f][j].e = "anchor"}}

\* C10: within one top-level my_safe_load call every loader created for an
\* !include, at any depth, has the anchor table object of the loader that
\* invoked it, so the anchors of every composed document of the include
\* chain are in the table of the loaders of the documents it includes; the
\* table belongs to the top-level load in progress, and a top-level load
\* starts with a table that holds nothing of an earlier load.
C10_AnchorTableScope ==
    /\ \A i \in 2..Len(loaders) : loaders[i].anchors = loaders[i - 1].anchors
    /\ \A i, j \in 1..Len(loaders) :
          (i < j /\ loaders[i].phase = "construct")
          => AnchorsOf(loaders[i].file) \subseteq tables[loaders[j].anchors].names
    /\ \A i \in 1..Len(loaders) : tables[loaders[i].anchors].load = nloads
    /\ (Len(loaders) = 1 /\ loaders[1].phase = "compose")
          => tables[loaders[1].anchors].names = {}

\* in a second top-level load, a loader two includes down has composed its
\* document, whose aliases name anchors of both documents above it, while
\* the table of the first load still holds its anchors
C10_Witness ==
    /\ nloads = 2
    /\ Len(loaders) = 3
    /\ loaders[3].phase = "construct"
    /\ \E i \in 1..Len(YamlSources[loaders[3].file]) :
          /\ YamlSources[loaders[3].file][i].e = "alias"
          /\ YamlSources[loaders[3].file][i].n \in AnchorsOf(loaders[1].file)
    /\ \E t \in 1..Len(tables) : tables[t].load = 1 /\ tables[t].names # {}

(***************************************************************************)
(* Properties of the database URI step                                     *)
(***************************************************************************)
\* what the step may do to the Config: every key it held keeps its value,
\* no key but the URI key is added, and when the step completes the URI key
\* was added exactly when DATABASE was present and the URI key was not
UriStepFrame(before, after, completed) ==
    /\ \A key \in KeySet(before) : Has(after, key) /\ Get(after, key) = Get(before, key)
    /\ KeySet(after) \ KeySet(before) \subseteq {kURI}
    /\ completed =>
          (Has(after, kURI) /\ ~Has(before, kURI))
             = (Has(before, kDATABASE) /\ ~Has(before, kURI))

\* C11: the database URI step at the end of _modify writes
\* SQLALCHEMY_DATABASE_URI exactly when DATABASE is present and the URI key
\* is not; it never overwrites a configured URI; and it leaves every other
\* key unchanged, the DATABASE mapping and its OPTIONS mapping included.
C11_OnlyUriKeyChanges ==
    [][pc = "database" => UriStepFrame(config, config', pc' = "done")]_vars

\* the URL builder will add search_path to the OPTIONS mapping it was given
SearchPathIntoOptions(self) ==
    /\ Has(self, kDATABASE) /\ ~Has(self, kURI)
    /\ LET data == Get(self, kDATABASE)
       IN  /\ IsDict(data)
           /\ {kENGINE, kSCHEMA, kOPTIONS} \subseteq KeySet(data.m)
           /\ IsStr(Get(data.m, kENGINE))
           /\ StartsWith(Get(data.m, kENGINE).s, <<"p","o","s","t","g","r","e","s","q","l">>)
           /\ IsDict(Get(data.m, kOPTIONS))

\* The step changes only the URI key unless the engine is postgresql* with
\* SCHEMA and an OPTIONS mapping.
OnlyUriKeyChangesUnlessSearchPath ==
    [][(pc = "database" /\ ~SearchPathIntoOptions(config))
         => UriStepFrame(config, config', pc' = "done")]_vars

=============================================================================
